---- MODULE Spec2Model ----
(***************************************************************************)
(* Task dependency management: the tasks table, the task_dependencies      *)
(* table, the cycle detector, the status resolver and the request handlers *)
(* of backend/tasks (models.py, serializers.py, views.py).                 *)
(***************************************************************************)
EXTENDS Integers, Sequences, FiniteSets, TLC

\* ------------------------------------------------------------------ bounds
\* Task ids are 1..MaxTasks (the AutoField never reuses an id).
MaxTasks == 3
\* task_dependencies ids are 1..MaxDepId (AutoField, never reused).
MaxDepId == 3
\* Task.version is capped: an update is only taken while version < MaxVersion.
MaxVersion == 2
\* Number of nodes of the graphs the cycle detector is applied to in SpecDetect.
DetectNodes == 4
\* Concurrent callers of SpecConc.
NumProcs == 2
\* Tasks that exist in the first state of SpecTasks, SpecConc and SpecUpdate.
StartTasks == 2

TaskIds == 1..MaxTasks
Procs == 1..NumProcs

\* TaskStatus (models.py 18-23)
PENDING == "pending"
IN_PROGRESS == "in_progress"
COMPLETED == "completed"
BLOCKED == "blocked"
TaskStatus == {PENDING, IN_PROGRESS, COMPLETED, BLOCKED}
\* status / version of an id that has no row in the tasks table
ABSENT == "absent"
NoVersion == 0
\* Task.estimated_hours default (models.py 42-45)
DefaultHours == 8

VARIABLES
    tasks,       \* ids of the rows of table `tasks`
    status,      \* status[t]: stored Task.status
    version,     \* version[t]: stored Task.version
    nextTaskId,  \* next AutoField value of table `tasks`
    deps,        \* rows of table `task_dependencies`: [id, task, depends_on]
    nextDepId,   \* next AutoField value of table `task_dependencies`
    procs,       \* procs[p]: position of concurrent request handler p
    resp,        \* outcome of the last operation
    estimated_hours  \* estimated_hours[t]: stored Task.estimated_hours

vars == <<tasks, status, version, nextTaskId, deps, nextDepId, procs, resp,
          estimated_hours>>

\* ---------------------------------------------------------------- helpers
\* The elements of a set of integers in ascending order. CPython iterates a
\* set of small non-negative ints in slot order hash(i) & mask = i, that is
\* ascending, as long as the ids are below the table size (8 or more); the
\* ids 1, 2, 31 of the tables that hold task 31 fall in the slots 1, 2, 7.
RECURSIVE SortedSeq(_)
SortedSeq(S) ==
    IF S = {} THEN <<>>
    ELSE LET m == CHOOSE x \in S : \A y \in S : x <= y
         IN <<m>> \o SortedSeq(S \ {m})

\* Index of the first occurrence of x in sequence s (list.index).
IndexOf(s, x) == CHOOSE i \in 1..Len(s) : s[i] = x /\ \A j \in 1..(i-1) : s[j] # x

\* Set of (task, depends_on) pairs of a set of rows.
Pairs(rows) == {<<r.task, r.depends_on>> : r \in rows}

\* Task.get_dependencies: the tasks t depends on (models.py 57-59)
get_dependencies(rows, t) == {r.depends_on : r \in {x \in rows : x.task = t}}

\* Task.get_dependents: the tasks that depend on t (models.py 61-63)
get_dependents(rows, t) == {r.task : r \in {x \in rows : x.depends_on = t}}

\* ----------------------------------------------------------- cycle detector
\* TaskDependency._build_dependency_graph (models.py 326-338): adjacency map
\* task_id -> set of depends_on_id over all stored rows.
build_dependency_graph(rows) ==
    [n \in {r.task : r \in rows} |-> {r.depends_on : r \in {x \in rows : x.task = n}}]

\* graph.get(node, []) (models.py 314)
GraphGet(graph, node) == IF node \in DOMAIN graph THEN graph[node] ELSE {}

\* A hypothetical graph that gets the candidate the wrong way round:
\* graph[depends_on_id].add(task_id).
GraphWithCandidateReversed(rows, s, t) ==
    LET g == build_dependency_graph(rows)
    IN [n \in (DOMAIN g) \cup {t} |->
           IF n = t THEN GraphGet(g, n) \cup {s} ELSE g[n]]

\* The hypothetical graph: stored rows plus the candidate (models.py 287-292)
GraphWithCandidate(rows, s, t) ==
    LET g == build_dependency_graph(rows)
    IN [n \in (DOMAIN g) \cup {s} |->
           IF n = s THEN GraphGet(g, n) \cup {t} ELSE g[n]]

\* The closure state of dfs: visited, rec_stack, path and the returned cycle
\* (<<>> models None: a returned cycle is never empty).
DfsStart == [visited |-> {}, rec_stack |-> {}, path |-> <<>>, cycle |-> <<>>]

RECURSIVE dfs(_, _, _)
RECURSIVE dfs_neighbors(_, _, _)

\* The loop `for neighbor in graph.get(node, [])` (models.py 314-317)
dfs_neighbors(graph, nbrs, st) ==
    IF nbrs = <<>> THEN st
    ELSE LET s1 == dfs(graph, Head(nbrs), st)
         IN IF s1.cycle # <<>> THEN s1
            ELSE dfs_neighbors(graph, Tail(nbrs), s1)

\* A dfs that tests `node in visited` before `node in rec_stack`: a node on
\* the recursion stack is then taken for an already explored one.
dfs_visited_first(graph, node, st) ==
    IF node \in st.visited
    THEN st
    ELSE LET s1 == [st EXCEPT !.visited = @ \cup {node},
                              !.rec_stack = @ \cup {node},
                              !.path = Append(@, node)]
             s2 == dfs_neighbors(graph, SortedSeq(GraphGet(graph, node)), s1)
         IN IF s2.cycle # <<>> THEN s2
            ELSE [s2 EXCEPT !.rec_stack = @ \ {node},
                            !.path = SubSeq(@, 1, Len(@) - 1)]

\* A dfs that returns the suffix of the path alone, without the node it met
\* again appended.
dfs_suffix_only(graph, node, st) ==
    IF node \in st.rec_stack
    THEN [st EXCEPT !.cycle =
             SubSeq(st.path, IndexOf(st.path, node), Len(st.path))]
    ELSE IF node \in st.visited
    THEN st
    ELSE LET s1 == [st EXCEPT !.visited = @ \cup {node},
                              !.rec_stack = @ \cup {node},
                              !.path = Append(@, node)]
             s2 == dfs_neighbors(graph, SortedSeq(GraphGet(graph, node)), s1)
         IN IF s2.cycle # <<>> THEN s2
            ELSE [s2 EXCEPT !.rec_stack = @ \ {node},
                            !.path = SubSeq(@, 1, Len(@) - 1)]

\* detect_circular_dependency.dfs (models.py 299-321)
dfs(graph, node, st) ==
    IF node \in st.rec_stack
    THEN [st EXCEPT !.cycle =
             SubSeq(st.path, IndexOf(st.path, node), Len(st.path)) \o <<node>>]
    ELSE IF node \in st.visited
    THEN st
    ELSE LET s1 == [st EXCEPT !.visited = @ \cup {node},
                              !.rec_stack = @ \cup {node},
                              !.path = Append(@, node)]
             s2 == dfs_neighbors(graph, SortedSeq(GraphGet(graph, node)), s1)
         IN IF s2.cycle # <<>> THEN s2
            ELSE [s2 EXCEPT !.rec_stack = @ \ {node},
                            !.path = SubSeq(@, 1, Len(@) - 1)]

\* A detector that forgets to add the candidate to the graph it searches.
detect_without_candidate(rows, s, t) ==
    dfs(build_dependency_graph(rows), s, DfsStart).cycle

\* TaskDependency.detect_circular_dependency (models.py 275-324) for the
\* candidate row (task_id = s, depends_on_id = t); <<>> is None.
detect_circular_dependency(rows, s, t) ==
    dfs(GraphWithCandidate(rows, s, t), s, DfsStart).cycle

\* ------------------------------------------------------------ status resolver
\* A can_start that is content with one completed dependency (any for all).
can_start_any(rows, st, t) ==
    LET d == get_dependencies(rows, t)
    IN IF d = {} THEN TRUE ELSE \E x \in d : st[x] = COMPLETED

\* Task.can_start (models.py 65-70)
can_start(rows, st, t) ==
    LET d == get_dependencies(rows, t)
    IN IF d = {} THEN TRUE ELSE \A x \in d : st[x] = COMPLETED

\* An is_blocked that asks for all dependencies to be blocked (all for any).
is_blocked_all(rows, st, t) ==
    /\ get_dependencies(rows, t) # {}
    /\ \A x \in get_dependencies(rows, t) : st[x] = BLOCKED

\* Task.is_blocked (models.py 134-137)
is_blocked(rows, st, t) == \E x \in get_dependencies(rows, t) : st[x] = BLOCKED

\* A resolver without the early return for completed tasks.
resolved_status_no_terminal(rows, st, t, cur) ==
    IF is_blocked(rows, st, t) THEN BLOCKED
    ELSE IF can_start(rows, st, t)
         THEN (IF cur \in {PENDING, BLOCKED} THEN IN_PROGRESS ELSE cur)
    ELSE IF get_dependencies(rows, t) # {} /\ cur = IN_PROGRESS THEN PENDING
    ELSE cur

\* A resolver that promotes to in_progress from pending only.
resolved_status_pending_only(rows, st, t, cur) ==
    IF cur = COMPLETED THEN cur
    ELSE IF is_blocked(rows, st, t) THEN BLOCKED
    ELSE IF can_start(rows, st, t)
         THEN (IF cur = PENDING THEN IN_PROGRESS ELSE cur)
    ELSE IF get_dependencies(rows, t) # {} /\ cur = IN_PROGRESS THEN PENDING
    ELSE cur

\* A resolver without the demotion of in_progress to pending.
resolved_status_no_demote(rows, st, t, cur) ==
    IF cur = COMPLETED THEN cur
    ELSE IF is_blocked(rows, st, t) THEN BLOCKED
    ELSE IF can_start(rows, st, t)
         THEN (IF cur \in {PENDING, BLOCKED} THEN IN_PROGRESS ELSE cur)
    ELSE cur

\* The status Task.update_status_based_on_dependencies leaves in self.status
\* (models.py 149-168), for a task whose in-memory status is cur.
resolved_status(rows, st, t, cur) ==
    IF cur = COMPLETED THEN cur
    ELSE IF is_blocked(rows, st, t) THEN BLOCKED
    ELSE IF can_start(rows, st, t)
         THEN (IF cur \in {PENDING, BLOCKED} THEN IN_PROGRESS ELSE cur)
    ELSE IF get_dependencies(rows, t) # {} /\ cur = IN_PROGRESS THEN PENDING
    ELSE cur

\* Variant of the test that reports a change on every call.
status_changed_always(rows, st, t, cur) == TRUE

\* The test `if new_status != self.status` (models.py 170); its outcome is also
\* the value update_status_based_on_dependencies returns (models.py 172-173).
status_changed(rows, st, t, cur) ==
    resolved_status(rows, st, t, cur) # cur

\* Task.update_status_based_on_dependencies (models.py 139-173) on an
\* instance of t that was loaded with status cur: the stored statuses
\* afterwards. The row is written only when the resolved status differs from
\* the instance's (models.py 170-173). The write is
\* save(update_fields=['status', 'updated_at']): Task.save increments
\* self.version in memory only, the version column is not among the fields
\* written (models.py 171, 197-199), so the stored version is untouched.
update_status_of_instance(rows, st, t, cur) ==
    IF status_changed(rows, st, t, cur)
    THEN [st EXCEPT ![t] = resolved_status(rows, st, t, cur)]
    ELSE st

\* The same on an instance just loaded from the table.
update_status_based_on_dependencies(rows, st, t) ==
    update_status_of_instance(rows, st, t, st[t])

\* ------------------------------------------------------------------ responses
\* op: the operation; task, arg: its arguments (0 when it has none); http: the status code of the response (0 for a call
\* that is not a request); errors: the kinds of the errors raised; path: the
\* cycle path carried by a cycle error; detector: whether
\* detect_circular_dependency was called; row: the id of the row of
\* task_dependencies the operation created (0 when it created none);
\* total_hours, can_start and (in path) critical_path: the result of an
\* estimate; can_start also: the result of a can_start call; changed: the
\* value a resolver call returned.
NoResp == [op |-> "none", task |-> 0, arg |-> 0, http |-> 0,
           errors |-> {}, path |-> <<>>, detector |-> FALSE, row |-> 0,
           total_hours |-> 0, can_start |-> FALSE, changed |-> FALSE]

Resp(op, t, a, http, errors, path, detector) ==
    [op |-> op, task |-> t, arg |-> a, http |-> http,
     errors |-> errors, path |-> path, detector |-> detector, row |-> 0,
     total_hours |-> 0, can_start |-> FALSE, changed |-> FALSE]

\* A caller's position: pc, the entry point it came through (via), the
\* candidate row it holds (or the task it updates), the status its Task
\* instance carries, the version and the estimated hours the instance was
\* loaded with (ver, hours), the version the request supplied (expected), and
\* the errors and the cycle path that full_clean has collected so far.
IdleProc == [pc |-> "idle", via |-> "none", task |-> 0, depends_on |-> 0,
             cur |-> ABSENT, ver |-> NoVersion, expected |-> NoVersion,
             hours |-> 0, errors |-> {}, path |-> <<>>]

\* ----------------------------------------------------------------------- Init
Init ==
    /\ tasks = {}
    /\ status = [t \in TaskIds |-> ABSENT]
    /\ version = [t \in TaskIds |-> NoVersion]
    /\ nextTaskId = 1
    /\ deps = {}
    /\ nextDepId = 1
    /\ procs = [p \in Procs |-> IdleProc]
    /\ resp = NoResp
    /\ estimated_hours = [t \in DOMAIN status |->
                            IF t \in tasks THEN DefaultHours ELSE 0]

\* ------------------------------------------------------------- task records
\* The status argument of a creation that names no status.
NOT_GIVEN == "not_given"

\* A creation that runs the resolver on the new task.
CreateTaskResolving(st) ==
    /\ nextTaskId <= MaxTasks
    /\ tasks' = tasks \cup {nextTaskId}
    /\ status' = update_status_based_on_dependencies(deps,
                     [status EXCEPT ![nextTaskId] = IF st = NOT_GIVEN THEN PENDING ELSE st],
                     nextTaskId)
    /\ version' = [version EXCEPT ![nextTaskId] = 1]
    /\ nextTaskId' = nextTaskId + 1
    /\ resp' = Resp("create_task", nextTaskId, IF st = NOT_GIVEN THEN 0 ELSE 1,
                    201, {}, <<>>, FALSE)
    /\ estimated_hours' = [estimated_hours EXCEPT ![nextTaskId] = DefaultHours]
    /\ UNCHANGED <<deps, nextDepId, procs>>

\* Task.objects.create(status=st) / POST /tasks/ (models.py 32-46, 175-199):
\* a new row gets the next id, the given status (default 'pending' when none
\* is given, st = NOT_GIVEN) and the default version 1; Task.save does not
\* touch version when pk is None and calls no resolver. The response's arg is
\* 1 when a status was given and 0 when not.
CreateTask(st) ==
    /\ nextTaskId <= MaxTasks
    /\ tasks' = tasks \cup {nextTaskId}
    /\ status' = [status EXCEPT ![nextTaskId] = IF st = NOT_GIVEN THEN PENDING ELSE st]
    /\ version' = [version EXCEPT ![nextTaskId] = 1]
    /\ nextTaskId' = nextTaskId + 1
    /\ resp' = Resp("create_task", nextTaskId, IF st = NOT_GIVEN THEN 0 ELSE 1,
                    201, {}, <<>>, FALSE)
    /\ estimated_hours' = [estimated_hours EXCEPT ![nextTaskId] = DefaultHours]
    /\ UNCHANGED <<deps, nextDepId, procs>>

\* A version test that never reports a conflict.
version_conflict_never(supplied, stored) == FALSE

\* The version test of perform_update (views.py 55-60) and of Task.save
\* (models.py 182-185): a version was supplied and differs from the stored one.
version_conflict(supplied, stored) == supplied # NoVersion /\ supplied # stored

\* The tasks perform_update writes with a raw SQL UPDATE
\* (`if old_instance.id in [31, 22]`, views.py 70).
RawSqlIds == {31, 22}

\* TaskViewSet.perform_update (views.py 33-150) with request data
\* {status: st, version: ver}, st one of the four statuses (the serializer
\* has validated it); ver = NoVersion models a request without a version.
\* After the version test (views.py 55-60), a task of RawSqlIds is written
\* with UPDATE tasks SET status = st, updated_at = NOW() WHERE id = t and the
\* handler returns before serializer.save() (views.py 70-122): the version
\* column is not set. For every other task the write is serializer.save() ->
\* Task.save (models.py 175-199): version + 1, all fields written. Both calls
\* of propagate_status_update are commented out (models.py 201-204, views.py
\* 127-129). The response keeps the supplied version in arg.
UpdateTask(t, st, ver) ==
    /\ UNCHANGED estimated_hours
    /\ UNCHANGED <<tasks, nextTaskId, deps, nextDepId, procs>>
    /\ IF t \notin tasks
       THEN /\ resp' = Resp("update_task", t, ver, 404, {"not_found"}, <<>>, FALSE)
            /\ UNCHANGED <<status, version>>
       ELSE IF version_conflict(ver, version[t])
       THEN /\ resp' = Resp("update_task", t, ver, 400, {"version_conflict"}, <<>>, FALSE)
            /\ UNCHANGED <<status, version>>
       ELSE IF t \in RawSqlIds
       THEN /\ status' = [status EXCEPT ![t] = st]
            /\ UNCHANGED version
            /\ resp' = Resp("update_task", t, ver, 200, {}, <<>>, FALSE)
       ELSE /\ version[t] < MaxVersion
            /\ status' = [status EXCEPT ![t] = st]
            /\ version' = [version EXCEPT ![t] = @ + 1]
            /\ resp' = Resp("update_task", t, ver, 200, {}, <<>>, FALSE)

\* Task.objects.get(pk=t).update_with_version_check(version=ver, status=st)
\* (models.py 216-224, 175-199) on an existing task: with a version among the
\* fields Task.save looks for the row with that version and raises
\* ValidationError (concurrent_modification) when there is none; otherwise
\* version + 1 and all fields are written.
UpdateWithVersionCheck(t, st, ver) ==
    /\ UNCHANGED estimated_hours
    /\ t \in tasks
    /\ UNCHANGED <<tasks, nextTaskId, deps, nextDepId, procs>>
    /\ IF version_conflict(ver, version[t])
       THEN /\ resp' = Resp("update_with_version_check", t, ver, 0,
                            {"version_conflict"}, <<>>, FALSE)
            /\ UNCHANGED <<status, version>>
       ELSE /\ version[t] < MaxVersion
            /\ status' = [status EXCEPT ![t] = st]
            /\ version' = [version EXCEPT ![t] = @ + 1]
            /\ resp' = Resp("update_with_version_check", t, ver, 0, {}, <<>>, FALSE)

\* TaskViewSet.mark_completed (views.py 314-358): UPDATE tasks SET status =
\* 'completed', updated_at = NOW() WHERE id = t. The version column is not
\* among the columns set.
MarkCompleted(t) ==
    /\ UNCHANGED estimated_hours
    /\ UNCHANGED <<tasks, version, nextTaskId, deps, nextDepId, procs>>
    /\ IF t \notin tasks
       THEN /\ resp' = Resp("mark_completed", t, 0, 404, {"not_found"}, <<>>, FALSE)
            /\ UNCHANGED status
       ELSE /\ status' = [status EXCEPT ![t] = COMPLETED]
            /\ resp' = Resp("mark_completed", t, 0, 200, {}, <<>>, FALSE)

\* TaskViewSet.force_complete (views.py 444-477): UPDATE tasks SET status =
\* 'completed', updated_at = NOW(), version = version + 1 WHERE id = t.
ForceComplete(t) ==
    /\ UNCHANGED estimated_hours
    /\ UNCHANGED <<tasks, nextTaskId, deps, nextDepId, procs>>
    /\ IF t \notin tasks
       THEN /\ resp' = Resp("force_complete", t, 0, 404, {"not_found"}, <<>>, FALSE)
            /\ UNCHANGED <<status, version>>
       ELSE /\ version[t] < MaxVersion
            /\ status' = [status EXCEPT ![t] = COMPLETED]
            /\ version' = [version EXCEPT ![t] = @ + 1]
            /\ resp' = Resp("force_complete", t, 0, 200, {}, <<>>, FALSE)

\* The values a request can carry as status: the four statuses and one that
\* is none of them.
INVALID_STATUS == "invalid"
StatusInputs == TaskStatus \cup {INVALID_STATUS}

\* TaskViewSet.force_status_update (views.py 479-516) with request data
\* {status: st}: 400 for a status that is none of the four, else UPDATE tasks
\* SET status = st, updated_at = NOW(), version = version + 1 WHERE id = t.
ForceStatusUpdate(t, st) ==
    /\ UNCHANGED estimated_hours
    /\ UNCHANGED <<tasks, nextTaskId, deps, nextDepId, procs>>
    /\ IF st \notin TaskStatus
       THEN /\ resp' = Resp("force_status_update", t, 0, 400, {"invalid_status"},
                            <<>>, FALSE)
            /\ UNCHANGED <<status, version>>
       ELSE IF t \notin tasks
       THEN /\ resp' = Resp("force_status_update", t, 0, 404, {"not_found"},
                            <<>>, FALSE)
            /\ UNCHANGED <<status, version>>
       ELSE /\ version[t] < MaxVersion
            /\ status' = [status EXCEPT ![t] = st]
            /\ version' = [version EXCEPT ![t] = @ + 1]
            /\ resp' = Resp("force_status_update", t, 0, 200, {}, <<>>, FALSE)

\* The value the repair endpoints write into estimated_hours
\* (views.py 374, 413, 529, 535).
FixedHours == 8

\* The estimated hours after the repair of every row whose value is 0 or
\* negative (the column is NOT NULL, so no stored value is NULL).
fixed_hours(tids, hrs) ==
    [t \in DOMAIN hrs |->
        IF t \in tids /\ hrs[t] <= 0 THEN FixedHours ELSE hrs[t]]

\* POST /tasks/fix_data/ -> TaskViewSet.fix_data (views.py 518-546), in one
\* transaction: UPDATE tasks SET estimated_hours = 8 WHERE estimated_hours
\* <= 0 (and the same for NULL, and for the priority, which is not modelled).
\* QuerySet.update does not call Task.save: no version changes. The response
\* keeps the number of rows repaired in arg.
FixData ==
    /\ estimated_hours' = fixed_hours(tasks, estimated_hours)
    /\ resp' = Resp("fix_data", 0,
                    Cardinality({t \in tasks : estimated_hours[t] <= 0}),
                    200, {}, <<>>, FALSE)
    /\ UNCHANGED <<tasks, status, version, nextTaskId, deps, nextDepId, procs>>

\* POST /tasks/fix_all_tasks/ -> TaskViewSet.fix_all_tasks (views.py 392-442),
\* in one transaction, for every task: estimated_hours <= 0 becomes 8 and a
\* status that is none of the four becomes 'pending'; the task is written
\* with save(update_fields=changes), so the version Task.save increments in
\* memory is not stored (models.py 197-199).
FixAllTasks ==
    /\ estimated_hours' = fixed_hours(tasks, estimated_hours)
    /\ status' = [t \in DOMAIN status |->
                     IF t \in tasks /\ status[t] \notin TaskStatus
                     THEN PENDING ELSE status[t]]
    /\ resp' = Resp("fix_all_tasks", 0,
                    Cardinality({t \in tasks : \/ estimated_hours[t] <= 0
                                               \/ status[t] \notin TaskStatus}),
                    200, {}, <<>>, FALSE)
    /\ UNCHANGED <<tasks, version, nextTaskId, deps, nextDepId, procs>>

\* POST /tasks/fix_task_31/ -> TaskViewSet.fix_task_31 (views.py 366-390):
\* 404 without a task 31, else its estimated_hours becomes 8 (and its priority
\* 3), written with save(update_fields=['priority', 'estimated_hours',
\* 'updated_at']): the stored version stays.
FixTask31 ==
    /\ UNCHANGED <<tasks, status, version, nextTaskId, deps, nextDepId, procs>>
    /\ IF 31 \notin tasks
       THEN /\ resp' = Resp("fix_task_31", 31, 0, 404, {"not_found"}, <<>>, FALSE)
            /\ UNCHANGED estimated_hours
       ELSE /\ estimated_hours' = [estimated_hours EXCEPT ![31] = FixedHours]
            /\ resp' = Resp("fix_task_31", 31, 0, 200, {}, <<>>, FALSE)

\* ------------------------------------------------------- dependency records
\* A clean() that runs the detector before the self-reference test.
clean_errors_detector_first(rows, t, d) ==
    IF detect_circular_dependency(rows, t, d) # <<>> THEN {"cycle"}
    ELSE IF t = d THEN {"self_reference"}
    ELSE {}

\* TaskDependency.clean (models.py 254-264): the self-reference test comes
\* first and raises; only otherwise the detector runs.
clean_errors(rows, t, d) ==
    IF t = d THEN {"self_reference"}
    ELSE IF detect_circular_dependency(rows, t, d) # <<>> THEN {"cycle"}
    ELSE {}

\* A model without the unique_together declaration.
validate_unique_missing(rows, t, d) == {}

\* Model.validate_unique for unique_together = ['task', 'depends_on']
\* (models.py 243-245).
validate_unique_errors(rows, t, d) ==
    IF <<t, d>> \in Pairs(rows) THEN {"duplicate"} ELSE {}

\* Model.full_clean as called by TaskDependency.save (models.py 268): clean()
\* and validate_unique() both run and their errors are collected.
full_clean_errors(rows, t, d) ==
    clean_errors(rows, t, d) \cup validate_unique_errors(rows, t, d)

\* The cycle path reported by clean(), <<>> when the detector did not run or
\* found nothing.
clean_path(rows, t, d) ==
    IF t = d THEN <<>> ELSE detect_circular_dependency(rows, t, d)

\* A save() that inserts the row before it validates, and does not roll the
\* insert back when validation fails.
CreateDependencyInsertFirst(t, d) ==
    /\ UNCHANGED estimated_hours
    /\ t \in tasks /\ d \in tasks
    /\ nextDepId <= MaxDepId
    /\ UNCHANGED <<tasks, version, nextTaskId, procs>>
    /\ deps' = deps \cup {[id |-> nextDepId, task |-> t, depends_on |-> d]}
    /\ nextDepId' = nextDepId + 1
    /\ LET errs == full_clean_errors(deps, t, d)
       IN IF errs # {}
          THEN /\ resp' = Resp("create_dependency", t, d, 0, errs,
                               clean_path(deps, t, d), t # d)
               /\ UNCHANGED status
          ELSE /\ status' = update_status_based_on_dependencies(deps', status, t)
               /\ resp' = [Resp("create_dependency", t, d, 0, {}, <<>>, TRUE)
                              EXCEPT !.row = nextDepId]

\* Variant of the insertion that stores the row and leaves the dependent's
\* status as it was.
CreateDependencyNoResolve(t, d) ==
    /\ UNCHANGED estimated_hours
    /\ t \in tasks /\ d \in tasks
    /\ UNCHANGED <<tasks, version, nextTaskId, procs, status>>
    /\ LET errs == full_clean_errors(deps, t, d)
       IN IF errs # {}
          THEN /\ resp' = Resp("create_dependency", t, d, 0, errs,
                               clean_path(deps, t, d), t # d)
               /\ UNCHANGED <<deps, nextDepId>>
          ELSE /\ nextDepId <= MaxDepId
               /\ deps' = deps \cup {[id |-> nextDepId, task |-> t, depends_on |-> d]}
               /\ nextDepId' = nextDepId + 1
               /\ resp' = [Resp("create_dependency", t, d, 0, {}, <<>>, TRUE)
                              EXCEPT !.row = nextDepId]

\* TaskDependency.objects.create(task=t, depends_on=d) -> TaskDependency.save
\* (models.py 266-273) on two existing tasks: full_clean, then, in one
\* transaction, the insert and the resolver on the dependent.
CreateDependency(t, d) ==
    /\ UNCHANGED estimated_hours
    /\ t \in tasks /\ d \in tasks
    /\ UNCHANGED <<tasks, version, nextTaskId, procs>>
    /\ LET errs == full_clean_errors(deps, t, d)
       IN IF errs # {}
          THEN /\ resp' = Resp("create_dependency", t, d, 0, errs,
                               clean_path(deps, t, d), t # d)
               /\ UNCHANGED <<deps, nextDepId, status>>
          ELSE /\ nextDepId <= MaxDepId
               /\ deps' = deps \cup {[id |-> nextDepId, task |-> t, depends_on |-> d]}
               /\ nextDepId' = nextDepId + 1
               /\ status' = update_status_based_on_dependencies(deps', status, t)
               /\ resp' = [Resp("create_dependency", t, d, 0, {}, <<>>, TRUE)
                              EXCEPT !.row = nextDepId]

\* AddDependencySerializer (serializers.py 236-268): validate_depends_on_id,
\* then validate.
serializer_errors(tids, rows, t, d) ==
    IF d \notin tids THEN {"not_found"}
    ELSE IF t = d THEN {"self_reference"}
    ELSE IF <<t, d>> \in Pairs(rows) THEN {"duplicate"}
    ELSE {}

\* TaskViewSet.add_dependency (views.py 170-251) as a function of the stored
\* tables: the response. Nothing is written on any path: the only write,
\* dependency.save(skip_validation=True) (views.py 226), runs full_clean and
\* then passes skip_validation on to Model.save (models.py 266-271), which
\* takes no such argument; the TypeError is caught at views.py 243-248.
add_dependency_response(tids, rows, t, d) ==
    IF t \notin tids
    THEN Resp("add_dependency", t, d, 404, {"not_found"}, <<>>, FALSE)
    ELSE LET serr == serializer_errors(tids, rows, t, d)
         IN IF serr # {}
            THEN Resp("add_dependency", t, d, 400, serr, <<>>, FALSE)
            ELSE LET cycle_path == detect_circular_dependency(rows, t, d)
                     cerr == full_clean_errors(rows, t, d)
                 IN IF cycle_path # <<>>
                    THEN Resp("add_dependency", t, d, 400, {"cycle"}, cycle_path, TRUE)
                    ELSE IF cerr # {}
                    THEN Resp("add_dependency", t, d, 400, cerr,
                              clean_path(rows, t, d), TRUE)
                    ELSE Resp("add_dependency", t, d, 500, {"server_error"},
                              <<>>, TRUE)

\* POST /tasks/t/add_dependency/ {depends_on_id: d}
AddDependency(t, d) ==
    /\ UNCHANGED estimated_hours
    /\ resp' = add_dependency_response(tasks, deps, t, d)
    /\ UNCHANGED <<tasks, status, version, nextTaskId, deps, nextDepId, procs>>

\* The row remove_dependency deletes (views.py 263-283): the row of task t
\* with id k, else the row of task t with depends_on_id k; {} when none.
remove_target(rows, t, k) ==
    LET byId == {r \in rows : r.id = k /\ r.task = t}
        byDep == {r \in rows : r.task = t /\ r.depends_on = k}
    IN IF byId # {} THEN byId
       ELSE IF byDep = {} THEN {}
       ELSE {CHOOSE r \in byDep : \A x \in byDep : r.id <= x.id}

\* A remove_dependency that deletes the row and leaves the task's status alone.
RemoveDependencyNoResolve(t, k) ==
    /\ UNCHANGED estimated_hours
    /\ UNCHANGED <<tasks, version, nextTaskId, nextDepId, procs, status>>
    /\ IF t \notin tasks \/ remove_target(deps, t, k) = {}
       THEN /\ resp' = Resp("remove_dependency", t, k, 404, {"not_found"}, <<>>, FALSE)
            /\ UNCHANGED deps
       ELSE /\ deps' = deps \ remove_target(deps, t, k)
            /\ resp' = Resp("remove_dependency", t, k, 204, {}, <<>>, FALSE)

\* TaskViewSet.remove_dependency (views.py 253-304):
\* DELETE /tasks/t/dependencies/k/
RemoveDependency(t, k) ==
    /\ UNCHANGED estimated_hours
    /\ UNCHANGED <<tasks, version, nextTaskId, nextDepId, procs>>
    /\ IF t \notin tasks \/ remove_target(deps, t, k) = {}
       THEN /\ resp' = Resp("remove_dependency", t, k, 404, {"not_found"}, <<>>, FALSE)
            /\ UNCHANGED <<deps, status>>
       ELSE /\ deps' = deps \ remove_target(deps, t, k)
            /\ status' = update_status_based_on_dependencies(deps', status, t)
            /\ resp' = Resp("remove_dependency", t, k, 204, {}, <<>>, FALSE)

\* The loop of perform_destroy (views.py 154-158) over the dependents, in the
\* order of the rows' ids: each dependent is resolved against the rows as
\* they are before the delete.
RECURSIVE destroy_updates(_, _, _)
destroy_updates(rows, st, ds) ==
    IF ds = <<>> THEN st
    ELSE destroy_updates(rows, update_status_based_on_dependencies(rows, st, Head(ds)),
                         Tail(ds))

\* The dependents of t in the order of their rows' ids.
dependents_in_order(rows, t) ==
    LET ids == SortedSeq({r.id : r \in {x \in rows : x.depends_on = t}})
    IN [i \in 1..Len(ids) |-> (CHOOSE r \in rows : r.id = ids[i]).task]

\* A delete on models whose foreign keys do not cascade: the rows of
\* task_dependencies that name the task stay.
DeleteTaskNoCascade(t) ==
    /\ UNCHANGED <<nextTaskId, nextDepId, procs, deps>>
    /\ IF t \notin tasks
       THEN /\ resp' = Resp("delete_task", t, 0, 404, {"not_found"}, <<>>, FALSE)
            /\ UNCHANGED <<tasks, status, version, estimated_hours>>
       ELSE /\ tasks' = tasks \ {t}
            /\ estimated_hours' = [estimated_hours EXCEPT ![t] = 0]
            /\ status' = [destroy_updates(deps, status, dependents_in_order(deps, t))
                            EXCEPT ![t] = ABSENT]
            /\ version' = [version EXCEPT ![t] = NoVersion]
            /\ resp' = Resp("delete_task", t, 0, 204, {}, <<>>, FALSE)

\* DELETE /tasks/t/ -> TaskViewSet.perform_destroy (views.py 152-160); the
\* delete cascades to every row that names t (models.py 231-240).
DeleteTask(t) ==
    /\ UNCHANGED <<nextTaskId, nextDepId, procs>>
    /\ IF t \notin tasks
       THEN /\ resp' = Resp("delete_task", t, 0, 404, {"not_found"}, <<>>, FALSE)
            /\ UNCHANGED <<tasks, deps, status, version, estimated_hours>>
       ELSE /\ tasks' = tasks \ {t}
            /\ estimated_hours' = [estimated_hours EXCEPT ![t] = 0]
            /\ deps' = {r \in deps : r.task # t /\ r.depends_on # t}
            /\ status' = [destroy_updates(deps, status, dependents_in_order(deps, t))
                            EXCEPT ![t] = ABSENT]
            /\ version' = [version EXCEPT ![t] = NoVersion]
            /\ resp' = Resp("delete_task", t, 0, 204, {}, <<>>, FALSE)

\* ----------------------------------------------------------- sequential spec
RemoveKeys == 1..(IF MaxDepId > MaxTasks THEN MaxDepId ELSE MaxTasks)

Next ==
    \/ \E st \in TaskStatus \cup {NOT_GIVEN} : CreateTask(st)
    \/ \E t \in TaskIds, d \in TaskIds : CreateDependency(t, d)
    \/ \E t \in TaskIds, d \in TaskIds : AddDependency(t, d)
    \/ \E t \in TaskIds, k \in RemoveKeys : RemoveDependency(t, k)
    \/ \E t \in TaskIds : DeleteTask(t)

Spec == Init /\ [][Next]_vars

\* ------------------------------------------------------------------ checking
\* Nodes that can be reached from n along one or more edges of pair set E.
RECURSIVE ReachSet(_, _)
ReachSet(E, S) ==
    LET S2 == S \cup {e[2] : e \in {x \in E : x[1] \in S}}
    IN IF S2 = S THEN S ELSE ReachSet(E, S2)

Reach(E, n) == ReachSet(E, {e[2] : e \in {x \in E : x[1] = n}})

Acyclic(E) == \A e \in E : e[1] \notin Reach(E, e[1])

TypeOK ==
    /\ tasks \subseteq TaskIds
    /\ \A t \in TaskIds : t \in tasks <=> status[t] \in TaskStatus
    /\ \A r \in deps : r.task \in tasks /\ r.depends_on \in tasks

\* The last operation was an edge insertion: the request handler
\* add_dependency or the model's save.
InsertOps == {"add_dependency", "create_dependency"}
LastWasInsert == resp.op \in InsertOps
LastPair == <<resp.task, resp.arg>>
StructuralErrors == {"self_reference", "cycle", "duplicate", "not_found"}

\* C1: after any sequence of edge insertions, remove_dependency and task
\* deletions starting from the empty tables, the stored dependency graph has
\* no directed cycle.
C1_StoredGraphAcyclic == Acyclic(Pairs(deps))

\* C1 witness: a chain of two stored rows whose second row was just inserted.
C1_Witness ==
    /\ resp.op = "create_dependency" /\ resp.errors = {} /\ resp.row # 0
    /\ \E r1 \in deps, r2 \in deps : r1.depends_on = r2.task

\* C2: an insertion of (X, X) for an existing task X fails with the
\* self-reference error and nothing else, the detector is not called, and no
\* row (X, X) is ever stored.
C2_SelfReferenceRejected ==
    /\ \A r \in deps : r.task # r.depends_on
    /\ (LastWasInsert /\ resp.task = resp.arg /\ resp.task \in tasks)
          => (resp.errors = {"self_reference"} /\ ~resp.detector /\ resp.row = 0)

\* C2 witness: add_dependency(X, X) was answered with the self-reference
\* error while rows are stored.
C2_Witness ==
    /\ resp.op = "add_dependency" /\ resp.task = resp.arg
    /\ resp.errors = {"self_reference"} /\ deps # {}

\* C3: an insertion of (X, Y), X # Y both existing, where Y depends on X
\* directly or transitively, is rejected with the cycle error, which carries a
\* path, and (X, Y) is not stored afterwards.
C3_CycleRejected ==
    (/\ LastWasInsert
     /\ resp.task # resp.arg
     /\ {resp.task, resp.arg} \subseteq tasks
     /\ resp.task \in Reach(Pairs(deps), resp.arg))
        => (/\ resp.errors = {"cycle"}
            /\ resp.path # <<>>
            /\ LastPair \notin Pairs(deps))

\* C3 witness: add_dependency was rejected for a cycle through a third task.
C3_Witness ==
    /\ resp.op = "add_dependency" /\ resp.errors = {"cycle"}
    /\ Len(resp.path) >= 4
    /\ <<resp.arg, resp.task>> \notin Pairs(deps)

\* C4: an insertion of (X, Y), X # Y both existing, (X, Y) not stored and no
\* dependency path from Y to X, succeeds: afterwards (X, Y) is stored and the
\* response carries the created row.
C4_ValidInsertSucceeds ==
    (/\ LastWasInsert
     /\ resp.task # resp.arg
     /\ {resp.task, resp.arg} \subseteq tasks
     /\ resp.task \notin Reach(Pairs(deps), resp.arg)
     /\ "duplicate" \notin resp.errors)
        => (/\ resp.errors = {}
            /\ \E r \in deps : r.id = resp.row /\ <<r.task, r.depends_on>> = LastPair)

\* C8: no two stored rows have the same (task, depends_on), and an insertion
\* of a pair that a row stored before the call already has fails with the
\* duplicate error.
C8_PairsUnique ==
    /\ \A r1 \in deps, r2 \in deps :
          (r1.task = r2.task /\ r1.depends_on = r2.depends_on) => r1 = r2
    /\ (LastWasInsert /\ \E r \in deps : /\ <<r.task, r.depends_on>> = LastPair
                                         /\ r.id # resp.row)
          => (resp.errors = {"duplicate"} /\ resp.row = 0)

\* C8 witness: add_dependency was answered with the duplicate error.
C8_Witness ==
    /\ resp.op = "add_dependency" /\ resp.errors = {"duplicate"}
    /\ LastPair \in Pairs(deps)

\* C9: a step that answers an insertion with a structural error (self
\* reference, cycle, duplicate, task not found) leaves the stored rows of both
\* tables as they were: edges, statuses and versions.
C9_RejectionWritesNothing ==
    [][(resp'.op \in InsertOps /\ resp'.errors \cap StructuralErrors # {})
          => (/\ deps' = deps /\ nextDepId' = nextDepId
              /\ tasks' = tasks /\ status' = status /\ version' = version)]_vars

\* C9 witness: add_dependency for a task id without a row was answered with
\* not found while rows are stored.
C9_Witness ==
    /\ resp.op = "add_dependency" /\ resp.errors = {"not_found"}
    /\ resp.http = 400 /\ deps # {}

\* ------------------------------------------------ the cycle detector alone
DetectIds == 1..DetectNodes
DetectPairs == {e \in DetectIds \X DetectIds : e[1] # e[2]}

\* Rows for a set of pairs, each with an id of its own.
RowsOf(E) ==
    {[id |-> (e[1] - 1) * DetectNodes + e[2], task |-> e[1], depends_on |-> e[2]] : e \in E}

\* The pairs that point forward in the order p of the tasks; every acyclic
\* set of pairs is a subset of ForwardPairs(p) for some order p.
ForwardPairs(p) == {e \in DetectPairs : p[e[1]] < p[e[2]]}

\* Every acyclic table over DetectNodes pending tasks, the empty one included.
InitDetect ==
    /\ tasks = DetectIds
    /\ status = [t \in DetectIds |-> PENDING]
    /\ version = [t \in DetectIds |-> 1]
    /\ nextTaskId = DetectNodes + 1
    /\ \E p \in Permutations(DetectIds) : \E E \in SUBSET ForwardPairs(p) :
          Acyclic(E) /\ deps = RowsOf(E)
    /\ nextDepId = DetectNodes * DetectNodes + 1
    /\ procs = [p \in Procs |-> IdleProc]
    /\ resp = NoResp
    /\ estimated_hours = [t \in DOMAIN status |->
                            IF t \in tasks THEN DefaultHours ELSE 0]

\* TaskDependency(task=s, depends_on=t).detect_circular_dependency() on an
\* unsaved row (models.py 275-324; called so at views.py 202-205 and
\* tests.py 86-87, 97-98), for two different tasks. The detector writes
\* nothing, so one call per drawn table covers every call.
Detect(s, t) ==
    /\ UNCHANGED estimated_hours
    /\ resp = NoResp
    /\ s \in tasks /\ t \in tasks /\ s # t
    /\ resp' = Resp("detect", s, t, 0, {}, detect_circular_dependency(deps, s, t), TRUE)
    /\ UNCHANGED <<tasks, status, version, nextTaskId, deps, nextDepId, procs>>

NextDetect == \E s \in DetectIds, t \in DetectIds : Detect(s, t)

SpecDetect == InitDetect /\ [][NextDetect]_vars

Range(q) == {q[i] : i \in 1..Len(q)}

\* The pairs E are exactly one chain a -> ... -> c: every node has at most one
\* outgoing and one incoming edge, a has no incoming edge, c no outgoing edge,
\* and every edge lies on the way from a to c.
IsChain(E, a, c) ==
    /\ E # {}
    /\ Acyclic(E)
    /\ \A e1 \in E, e2 \in E : (e1[1] = e2[1] \/ e1[2] = e2[2]) => e1 = e2
    /\ \A e \in E : e[2] # a /\ e[1] # c
    /\ c \in Reach(E, a)
    /\ \A e \in E : e[1] \in ({a} \cup Reach(E, a))

\* C5: on an acyclic table and a candidate (s, t), s # t, the detector
\* returns a path exactly when s can be reached from t along stored edges, and
\* returns nothing otherwise.
C5_DetectsExactlyReachable ==
    resp.op = "detect" =>
        ((resp.path # <<>>) <=> (resp.task \in Reach(Pairs(deps), resp.arg)))

\* C5 witness: the detector found a cycle that runs through two stored edges
\* in a table where the candidate's source has no stored edge of its own.
C5_Witness ==
    /\ resp.op = "detect" /\ Len(resp.path) >= 4
    /\ get_dependencies(deps, resp.task) = {}

\* C6: when the stored edges are exactly a chain from A down to C and the
\* candidate is (C, A), the detector reports a cycle whose path holds every
\* task of the chain, both ends of the candidate among them.
C6_ChainCycleHoldsAllTasks ==
    (resp.op = "detect" /\ IsChain(Pairs(deps), resp.arg, resp.task)) =>
        /\ resp.path # <<>>
        /\ ({resp.arg} \cup Reach(Pairs(deps), resp.arg)) \subseteq Range(resp.path)
        /\ {resp.task, resp.arg} \subseteq Range(resp.path)

\* C6 witness: the chain 1 -> 2 -> 3 of tests.py 79-91 with candidate (3, 1).
C6_Witness ==
    /\ resp.op = "detect" /\ resp.task = 3 /\ resp.arg = 1
    /\ Pairs(deps) = {<<1, 2>>, <<2, 3>>}
    /\ Range(resp.path) = {1, 2, 3}

\* ------------------------------------------------------- task updates spec
\* StartTasks tasks were created with the default status and no row of
\* task_dependencies is stored.
InitStarted ==
    /\ tasks = 1..StartTasks
    /\ status = [t \in TaskIds |-> IF t <= StartTasks THEN PENDING ELSE ABSENT]
    /\ version = [t \in TaskIds |-> IF t <= StartTasks THEN 1 ELSE NoVersion]
    /\ nextTaskId = StartTasks + 1
    /\ deps = {}
    /\ nextDepId = 1
    /\ procs = [p \in Procs |-> IdleProc]
    /\ resp = NoResp
    /\ estimated_hours = [t \in DOMAIN status |->
                            IF t \in tasks THEN DefaultHours ELSE 0]

\* The ids of a table that holds the tasks 1..StartTasks-1 and task 31, one
\* of the two tasks perform_update treats apart, and an id that is free.
SpecialTasks == (1..(StartTasks - 1)) \cup {31}
SpecialIds == (1..StartTasks) \cup {31}

\* The estimated hours the tasks of that table can have: 0, which the
\* PositiveIntegerField admits and the repair endpoints replace, 3 and the
\* default.
SpecialHours == {0, 3, DefaultHours}

\* The tasks of SpecialTasks were created with the default status, task 31
\* among them, the tasks with other ids created before it were deleted, and
\* no row of task_dependencies is stored.
SpecialStarted(hrs) ==
    /\ tasks = SpecialTasks
    /\ status = [t \in SpecialIds |-> IF t \in SpecialTasks THEN PENDING ELSE ABSENT]
    /\ version = [t \in SpecialIds |-> IF t \in SpecialTasks THEN 1 ELSE NoVersion]
    /\ nextTaskId = 32
    /\ deps = {}
    /\ nextDepId = 1
    /\ procs = [p \in Procs |-> IdleProc]
    /\ resp = NoResp
    /\ estimated_hours \in [SpecialIds -> hrs \cup {0}]
    /\ \A t \in SpecialIds :
          estimated_hours[t] \in (IF t \in tasks THEN hrs ELSE {0})

InitSpecial == SpecialStarted(SpecialHours)

\* Updates and repairs of the task records, with insertions to give the tasks
\* dependents.
NextTasks ==
    \/ \E t \in SpecialIds, d \in SpecialIds : CreateDependency(t, d)
    \/ \E t \in SpecialIds, st \in TaskStatus, ver \in 0..MaxVersion :
          UpdateTask(t, st, ver)
    \/ \E t \in SpecialIds, st \in TaskStatus, ver \in 0..MaxVersion :
          UpdateWithVersionCheck(t, st, ver)
    \/ \E t \in SpecialIds : MarkCompleted(t)
    \/ \E t \in SpecialIds : ForceComplete(t)
    \/ \E t \in SpecialIds, st \in StatusInputs : ForceStatusUpdate(t, st)
    \/ FixData
    \/ FixAllTasks
    \/ FixTask31

SpecTasks == InitSpecial /\ [][NextTasks]_vars

\* ------------------------------------------------------- concurrent callers
\* TaskDependency.save, first statement (models.py 268), first part: caller p
\* holds the unsaved row (t, d) and full_clean calls clean() (models.py
\* 254-264), which reads the rows stored now for the detector unless the row
\* names one task twice. full_clean keeps the error and goes on. No
\* transaction is open and no lock is taken.
SaveClean(p, t, d) ==
    /\ procs[p].pc = "idle"
    /\ t \in tasks /\ d \in tasks
    /\ UNCHANGED <<tasks, status, version, nextTaskId, deps, nextDepId,
                   estimated_hours>>
    /\ procs' = [procs EXCEPT ![p] =
                    [IdleProc EXCEPT !.pc = "unique", !.via = "model",
                                     !.task = t, !.depends_on = d,
                                     !.cur = status[t], !.ver = version[t],
                                     !.errors = clean_errors(deps, t, d),
                                     !.path = clean_path(deps, t, d)]]
    /\ resp' = NoResp

\* TaskDependency.save, first statement, second part: full_clean calls
\* validate_unique(), which looks the pair up in the rows stored now, and
\* raises the errors it has collected.
SaveValidateUnique(p) ==
    /\ procs[p].pc = "unique" /\ procs[p].via = "model"
    /\ UNCHANGED <<tasks, status, version, nextTaskId, deps, nextDepId,
                   estimated_hours>>
    /\ LET t == procs[p].task
           d == procs[p].depends_on
           errs == procs[p].errors \cup validate_unique_errors(deps, t, d)
       IN IF errs # {}
          THEN /\ resp' = Resp("create_dependency", t, d, 0, errs,
                               procs[p].path, t # d)
               /\ procs' = [procs EXCEPT ![p] = IdleProc]
          ELSE /\ procs' = [procs EXCEPT ![p].pc = "insert"]
               /\ resp' = NoResp

\* TaskDependency.save, the transaction (models.py 270-273): the INSERT, which
\* the unique index of unique_together refuses for a stored pair
\* (models.py 245), and the resolver on the caller's instance of the task.
SaveInsert(p) ==
    /\ UNCHANGED estimated_hours
    /\ procs[p].pc = "insert" /\ procs[p].via = "model"
    /\ procs' = [procs EXCEPT ![p] = IdleProc]
    /\ UNCHANGED <<tasks, version, nextTaskId>>
    /\ LET t == procs[p].task
           d == procs[p].depends_on
       IN IF <<t, d>> \in Pairs(deps)
          THEN /\ resp' = Resp("create_dependency", t, d, 0, {"integrity_error"},
                               <<>>, TRUE)
               /\ UNCHANGED <<deps, nextDepId, status>>
          ELSE /\ nextDepId <= MaxDepId
               /\ deps' = deps \cup {[id |-> nextDepId, task |-> t, depends_on |-> d]}
               /\ nextDepId' = nextDepId + 1
               /\ status' = update_status_of_instance(deps', status, t, procs[p].cur)
               /\ resp' = [Resp("create_dependency", t, d, 0, {}, <<>>, TRUE)
                              EXCEPT !.row = nextDepId]

\* TaskViewSet.add_dependency up to its duplicate test (views.py 176-199):
\* get_object, the serializer (which looks the pair up) and the view's own
\* lookup of the pair. The two lookups are one step: rows are never deleted
\* here, so they answer as the later of them does. No transaction is open.
AddCheck(p, t, d) ==
    /\ procs[p].pc = "idle"
    /\ UNCHANGED <<tasks, status, version, nextTaskId, deps, nextDepId,
                   estimated_hours>>
    /\ IF t \notin tasks
       THEN /\ resp' = Resp("add_dependency", t, d, 404, {"not_found"}, <<>>, FALSE)
            /\ UNCHANGED procs
       ELSE IF serializer_errors(tasks, deps, t, d) # {}
       THEN /\ resp' = Resp("add_dependency", t, d, 400,
                            serializer_errors(tasks, deps, t, d), <<>>, FALSE)
            /\ UNCHANGED procs
       ELSE /\ procs' = [procs EXCEPT ![p] =
                           [IdleProc EXCEPT !.pc = "detect", !.via = "view",
                                            !.task = t, !.depends_on = d,
                                            !.cur = status[t],
                                            !.ver = version[t]]]
            /\ resp' = NoResp

\* TaskViewSet.add_dependency, the cycle check (views.py 201-220): the
\* detector reads the rows stored now.
AddDetect(p) ==
    /\ procs[p].pc = "detect" /\ procs[p].via = "view"
    /\ UNCHANGED <<tasks, status, version, nextTaskId, deps, nextDepId,
                   estimated_hours>>
    /\ LET t == procs[p].task
           d == procs[p].depends_on
           cycle_path == detect_circular_dependency(deps, t, d)
       IN IF cycle_path # <<>>
          THEN /\ resp' = Resp("add_dependency", t, d, 400, {"cycle"},
                               cycle_path, TRUE)
               /\ procs' = [procs EXCEPT ![p] = IdleProc]
          ELSE /\ procs' = [procs EXCEPT ![p].pc = "clean"]
               /\ resp' = NoResp

\* TaskViewSet.add_dependency, the write (views.py 222-248), first part:
\* dependency.save(skip_validation=True) runs full_clean, whose clean() reads
\* the rows stored now for the detector.
AddClean(p) ==
    /\ procs[p].pc = "clean" /\ procs[p].via = "view"
    /\ UNCHANGED <<tasks, status, version, nextTaskId, deps, nextDepId,
                   estimated_hours>>
    /\ procs' = [procs EXCEPT ![p].pc = "unique",
                              ![p].errors = clean_errors(deps, procs[p].task,
                                                         procs[p].depends_on),
                              ![p].path = clean_path(deps, procs[p].task,
                                                     procs[p].depends_on)]
    /\ resp' = NoResp

\* TaskViewSet.add_dependency, the write, second part: validate_unique looks
\* the pair up in the rows stored now; full_clean raises what it collected
\* (400), and without an error Model.save refuses skip_validation (500).
\* Nothing is inserted.
AddSave(p) ==
    /\ procs[p].pc = "unique" /\ procs[p].via = "view"
    /\ procs' = [procs EXCEPT ![p] = IdleProc]
    /\ UNCHANGED <<tasks, status, version, nextTaskId, deps, nextDepId,
                   estimated_hours>>
    /\ LET t == procs[p].task
           d == procs[p].depends_on
           errs == procs[p].errors \cup validate_unique_errors(deps, t, d)
       IN IF errs # {}
          THEN resp' = Resp("add_dependency", t, d, 400, errs, procs[p].path, TRUE)
          ELSE resp' = Resp("add_dependency", t, d, 500, {"server_error"},
                            <<>>, TRUE)

NextConc ==
    \/ \E p \in Procs, t \in TaskIds, d \in TaskIds : SaveClean(p, t, d)
    \/ \E p \in Procs : SaveValidateUnique(p)
    \/ \E p \in Procs : SaveInsert(p)
    \/ \E p \in Procs, t \in TaskIds, d \in TaskIds : AddCheck(p, t, d)
    \/ \E p \in Procs : AddDetect(p)
    \/ \E p \in Procs : AddClean(p)
    \/ \E p \in Procs : AddSave(p)

SpecConc == InitStarted /\ [][NextConc]_vars

\* C7: whatever the interleaving of two concurrent insertions, they never
\* both commit so that the stored graph has a cycle.
C7_ConcurrentInsertsKeepAcyclic ==
    \A t \in tasks : t \notin Reach(Pairs(deps), t)

\* Tasks that depend on t directly or transitively.
TransitiveDependents(rows, t) == {x \in tasks : t \in Reach(Pairs(rows), x)}

\* C10: a task update that changes the stored status of X leaves every
\* non-completed transitive dependent of X with the status the resolver
\* yields for it.
C10_UpdatePropagates ==
    [][\A x \in TaskIds :
          (resp'.op = "update_task" /\ resp'.task = x /\ resp'.http = 200
           /\ status'[x] # status[x])
          => \A y \in TransitiveDependents(deps', x) :
                status'[y] # COMPLETED
                => status'[y] = resolved_status(deps', status', y, status'[y])]_vars

\* ------------------------------------------- resolver and propagation alone
\* Number of tasks of the graphs the resolver and the propagation run on in
\* SpecResolve.
ResolveNodes == 3
\* Depth at which the interpreter refuses a further nested call
\* (RecursionError); far above any depth an acyclic graph of ResolveNodes
\* tasks allows.
DepthLimit == 6

ResolveIds == 1..ResolveNodes
ResolvePairs == {e \in ResolveIds \X ResolveIds : e[1] # e[2]}
ResolveForward(p) == {e \in ResolvePairs : p[e[1]] < p[e[2]]}

Max(a, b) == IF a >= b THEN a ELSE b

\* A propagation that walks to the tasks self depends on instead of the tasks
\* that depend on self.
loaded_dependencies(rows, st, t) ==
    LET ds == SortedSeq(get_dependencies(rows, t))
    IN [i \in 1..Len(ds) |-> [task |-> ds[i], cur |-> st[ds[i]]]]

\* get_dependents as propagate_status_update evaluates it (models.py 210,
\* 61-63): every dependent's Task instance is loaded before the loop starts,
\* so each carries the status stored at that moment.
loaded_dependents(rows, st, t) ==
    LET ds == dependents_in_order(rows, t)
    IN [i \in 1..Len(ds) |-> [task |-> ds[i], cur |-> st[ds[i]]]]

\* A propagation whose nested call is made on self instead of the dependent.
propagate_target_self(self, dependent) == self

\* The instance the nested call is made on: dependent.propagate_status_update()
\* (models.py 214).
propagate_target(self, dependent) == dependent

\* A propagation that descends when the dependent did not change
\* (`if not dependent.update_status_based_on_dependencies()`).
propagate_recurse_inverted(changed) == ~changed

\* Whether the loop descends into a dependent: the value returned by
\* dependent.update_status_based_on_dependencies() (models.py 212).
propagate_recurse(changed) == changed

RECURSIVE propagate_status_update(_, _, _, _)
RECURSIVE propagate_loop(_, _, _, _, _)

\* The loop of propagate_status_update (models.py 211-214) over the loaded
\* instances insts of the dependents of self, in a call at nesting depth
\* depth. Result: the stored statuses, the deepest nesting reached and whether
\* the depth limit was hit.
propagate_loop(rows, st, self, insts, depth) ==
    IF insts = <<>> THEN [st |-> st, depth |-> depth, over |-> FALSE]
    ELSE LET d == Head(insts)
             changed == status_changed(rows, st, d.task, d.cur)
             st1 == update_status_of_instance(rows, st, d.task, d.cur)
             r1 == IF propagate_recurse(changed)
                   THEN propagate_status_update(rows, st1,
                            propagate_target(self, d.task), depth + 1)
                   ELSE [st |-> st1, depth |-> depth, over |-> FALSE]
         IN IF r1.over THEN r1
            ELSE LET r2 == propagate_loop(rows, r1.st, self, Tail(insts), depth)
                 IN [st |-> r2.st, depth |-> Max(r1.depth, r2.depth),
                     over |-> r2.over]

\* Task.propagate_status_update (models.py 206-214) on task t, called at
\* nesting depth depth.
propagate_status_update(rows, st, t, depth) ==
    IF depth > DepthLimit THEN [st |-> st, depth |-> depth, over |-> TRUE]
    ELSE propagate_loop(rows, st, t, loaded_dependents(rows, st, t), depth)

\* Every acyclic table over ResolveNodes tasks, each task with any status.
InitResolve ==
    /\ tasks = ResolveIds
    /\ status \in [ResolveIds -> TaskStatus]
    /\ version = [t \in ResolveIds |-> 1]
    /\ nextTaskId = ResolveNodes + 1
    /\ \E p \in Permutations(ResolveIds) : \E E \in SUBSET ResolveForward(p) :
          Acyclic(E) /\ deps = RowsOf(E)
    /\ nextDepId = DetectNodes * DetectNodes + 1
    /\ procs = [p \in Procs |-> IdleProc]
    /\ resp = NoResp
    /\ estimated_hours = [t \in DOMAIN status |->
                            IF t \in tasks THEN DefaultHours ELSE 0]

\* task.update_status_based_on_dependencies() on a freshly loaded instance of
\* t (models.py 139-173).
Resolve(t) ==
    /\ UNCHANGED estimated_hours
    /\ t \in tasks
    /\ status' = update_status_based_on_dependencies(deps, status, t)
    /\ resp' = [Resp("resolve", t, 0, 0, {}, <<>>, FALSE)
                   EXCEPT !.changed = status_changed(deps, status, t, status[t])]
    /\ UNCHANGED <<tasks, version, nextTaskId, deps, nextDepId, procs>>

\* task.propagate_status_update() on task t (models.py 206-214). The response
\* keeps the deepest nesting of the run in arg.
Propagate(t) ==
    /\ UNCHANGED estimated_hours
    /\ t \in tasks
    /\ LET r == propagate_status_update(deps, status, t, 1)
       IN /\ status' = r.st
          /\ resp' = Resp("propagate", t, r.depth, 0,
                          IF r.over THEN {"recursion_limit"} ELSE {}, <<>>, FALSE)
    /\ UNCHANGED <<tasks, version, nextTaskId, deps, nextDepId, procs>>

NextResolve ==
    \/ \E t \in ResolveIds : Resolve(t)
    \/ \E t \in ResolveIds : Propagate(t)

SpecResolve == InitResolve /\ [][NextResolve]_vars

\* Statuses of the direct dependencies of t in the current state.
DepStatuses(t) == {status[r.depends_on] : r \in {x \in deps : x.task = t}}

\* Number of tasks on the longest chain of pair set E that starts at n.
RECURSIVE ChainFrom(_, _)
ChainFrom(E, n) ==
    LET succ == {e[2] : e \in {x \in E : x[1] = n}}
        lens == {ChainFrom(E, m) : m \in succ}
    IN IF succ = {} THEN 1
       ELSE 1 + (CHOOSE k \in lens : \A j \in lens : j <= k)

\* Number of tasks on the longest dependency chain among the tasks T.
LongestChain(E, T) ==
    LET lens == {ChainFrom(E, n) : n \in T}
    IN CHOOSE k \in lens : \A j \in lens : j <= k

\* C11: a resolver call or a propagation run never changes a task whose
\* status is completed, whatever its dependencies' statuses are; resolving a
\* completed task writes nothing at all.
C11_CompletedIsTerminal ==
    [][resp'.op \in {"resolve", "propagate"} =>
          /\ \A x \in tasks : status[x] = COMPLETED =>
                (status'[x] = COMPLETED /\ version'[x] = version[x])
          /\ (resp'.op = "resolve" /\ status[resp'.task] = COMPLETED) =>
                (status' = status /\ version' = version)]_vars

\* C11 witness: the resolver ran on a completed task that has a blocked
\* dependency.
C11_Witness ==
    /\ resp.op = "resolve" /\ status[resp.task] = COMPLETED
    /\ BLOCKED \in DepStatuses(resp.task)

\* C12: the resolver sets a pending, in_progress or blocked task that has at
\* least one blocked direct dependency to blocked, whatever the other
\* dependencies' statuses are.
C12_BlockedDependencyBlocks ==
    [][(/\ resp'.op = "resolve"
        /\ status[resp'.task] \in {PENDING, IN_PROGRESS, BLOCKED}
        /\ BLOCKED \in DepStatuses(resp'.task))
          => status'[resp'.task] = BLOCKED]_vars

\* C12 witness: the resolver left a task blocked that has one blocked and one
\* completed dependency.
C12_Witness ==
    /\ resp.op = "resolve" /\ status[resp.task] = BLOCKED
    /\ {BLOCKED, COMPLETED} \subseteq DepStatuses(resp.task)

\* C13: for a task whose direct dependencies are all completed (or that has
\* none), the resolver turns pending and blocked into in_progress and leaves
\* in_progress as it is; a second resolver call right after the first changes
\* nothing.
C13_AllCompletedPromotes ==
    [][(resp'.op = "resolve" /\ DepStatuses(resp'.task) \subseteq {COMPLETED}) =>
          /\ status[resp'.task] \in {PENDING, BLOCKED, IN_PROGRESS}
                => status'[resp'.task] = IN_PROGRESS
          /\ (resp.op = "resolve" /\ resp.task = resp'.task) => status' = status]_vars

\* C13 witness: the resolver left a task in_progress whose dependencies, at
\* least one, are all completed.
C13_Witness ==
    /\ resp.op = "resolve" /\ status[resp.task] = IN_PROGRESS
    /\ DepStatuses(resp.task) = {COMPLETED}

\* C14: for a task with at least one direct dependency, none blocked and not
\* all completed, the resolver turns in_progress into pending and leaves
\* pending and blocked as they are.
C14_IncompleteDemotes ==
    [][(/\ resp'.op = "resolve"
        /\ DepStatuses(resp'.task) # {}
        /\ BLOCKED \notin DepStatuses(resp'.task)
        /\ DepStatuses(resp'.task) # {COMPLETED})
          => /\ status[resp'.task] = IN_PROGRESS => status'[resp'.task] = PENDING
             /\ status[resp'.task] \in {PENDING, BLOCKED}
                   => status'[resp'.task] = status[resp'.task]]_vars

\* C14 witness: the resolver left a task pending that has a completed and an
\* in_progress dependency.
C14_Witness ==
    /\ resp.op = "resolve" /\ status[resp.task] = PENDING
    /\ DepStatuses(resp.task) = {COMPLETED, IN_PROGRESS}

\* C15: right after the resolver ran on a non-completed task, the task is
\* blocked if and only if one of its direct dependencies is blocked.
C15_BlockedIffDirectBlocked ==
    (resp.op = "resolve" /\ status[resp.task] # COMPLETED) =>
        (status[resp.task] = BLOCKED <=> BLOCKED \in DepStatuses(resp.task))

\* C16: a second propagation run from the same task right after a first one
\* changes no stored status.
C16_PropagationIdempotent ==
    [][(resp.op = "propagate" /\ resp'.op = "propagate" /\ resp'.task = resp.task)
          => status' = status]_vars

\* C16 witness: a propagation run went two levels deep, so it changed the
\* status of a dependent that has a dependent of its own.
C16_Witness ==
    /\ resp.op = "propagate" /\ resp.arg >= 2
    /\ \E r1 \in deps, r2 \in deps :
          r1.depends_on = resp.task /\ r2.depends_on = r1.task

\* C17: on an acyclic table a propagation run ends without reaching the depth
\* limit, and its deepest nesting is at most the number of tasks on the
\* longest dependency chain.
C17_PropagationDepthBounded ==
    resp.op = "propagate" =>
        /\ resp.errors = {}
        /\ resp.arg <= LongestChain(Pairs(deps), tasks)

\* C17 witness: a run that went as deep as a chain of three tasks.
C17_Witness ==
    /\ resp.op = "propagate" /\ resp.arg = 3
    /\ LongestChain(Pairs(deps), tasks) = 3

\* ------------------------------------------------------- versions of tasks
\* The operations that write a task record on success.
MutationOps == {"update_task", "update_with_version_check", "mark_completed",
                "force_complete", "force_status_update"}

\* C18: every step that writes a task record (a successful update,
\* mark_completed, force_complete or force_status_update of the task, or a
\* status written by the resolver) raises that task's stored version by
\* exactly 1, and no stored version is below 1.
C18_MutationBumpsVersion ==
    [][\A x \in tasks :
          (\/ status'[x] # status[x]
           \/ (resp'.op \in MutationOps /\ resp'.task = x /\ resp'.errors = {}))
          => (version'[x] = version[x] + 1 /\ version[x] >= 1)]_vars

\* C19: an update of an existing task that supplies a version different from
\* the stored one is answered with the version-conflict error and leaves both
\* tables as they were, the task's version and status included.
C19_StaleVersionRejected ==
    [][(/\ resp'.op \in {"update_task", "update_with_version_check"}
        /\ resp'.task \in tasks
        /\ resp'.arg # NoVersion
        /\ resp'.arg # version[resp'.task])
          => (/\ resp'.errors = {"version_conflict"}
              /\ status' = status /\ version' = version
              /\ tasks' = tasks /\ deps' = deps)]_vars

\* C19 witness: a PATCH that supplied version 1 for a task stored at version 2
\* was answered 400 with the version conflict.
C19_Witness ==
    /\ resp.op = "update_task" /\ resp.http = 400
    /\ resp.errors = {"version_conflict"}
    /\ resp.arg = 1 /\ version[resp.task] = 2

\* ------------------------------------------------------- concurrent updates
\* PATCH /tasks/t/ {status: st, version: ver} by caller p, first statement:
\* UpdateModelMixin.update loads the instance that serializer.save() will
\* write, instance = self.get_object() (404 without the task), and validates
\* the data. The caller keeps the version and the estimated hours of that
\* instance and the status it will set on it. No transaction is open and no
\* row lock is taken (no select_for_update).
UpdateLoad(p, t, st, ver) ==
    /\ procs[p].pc = "idle"
    /\ UNCHANGED <<tasks, status, version, nextTaskId, deps, nextDepId,
                   estimated_hours>>
    /\ IF t \notin tasks
       THEN /\ resp' = Resp("update_task", t, ver, 404, {"not_found"}, <<>>, FALSE)
            /\ UNCHANGED procs
       ELSE /\ procs' = [procs EXCEPT ![p] =
                           [IdleProc EXCEPT !.pc = "check", !.via = "update",
                                            !.task = t, !.cur = st,
                                            !.ver = version[t],
                                            !.hours = estimated_hours[t],
                                            !.expected = ver]]
            /\ resp' = NoResp

\* TaskViewSet.perform_update up to the version test (views.py 38-67):
\* old_instance = self.get_object() loads the task a second time and the
\* supplied version is compared with the version of that second instance.
UpdateCheck(p) ==
    /\ procs[p].pc = "check" /\ procs[p].via = "update"
    /\ UNCHANGED <<tasks, status, version, nextTaskId, deps, nextDepId,
                   estimated_hours>>
    /\ LET t == procs[p].task
           ver == procs[p].expected
       IN IF t \notin tasks
          THEN /\ resp' = Resp("update_task", t, ver, 404, {"not_found"}, <<>>, FALSE)
               /\ procs' = [procs EXCEPT ![p] = IdleProc]
          ELSE IF version_conflict(ver, version[t])
          THEN /\ resp' = Resp("update_task", t, ver, 400, {"version_conflict"},
                               <<>>, FALSE)
               /\ procs' = [procs EXCEPT ![p] = IdleProc]
          ELSE /\ procs' = [procs EXCEPT ![p].pc = "save"]
               /\ resp' = NoResp

\* TaskViewSet.perform_update, the write. For a task of RawSqlIds the raw
\* UPDATE of the status (views.py 70-122), which sets no version. For every
\* other task serializer.save() (views.py 124) -> Task.save (models.py
\* 175-199) with no _expected_version on the instance: self.version += 1 on
\* the version the instance was loaded with by UpdateModelMixin.update, then
\* every field of that instance is written.
UpdateSave(p) ==
    /\ procs[p].pc = "save" /\ procs[p].via = "update"
    /\ procs' = [procs EXCEPT ![p] = IdleProc]
    /\ status' = [status EXCEPT ![procs[p].task] = procs[p].cur]
    /\ IF procs[p].task \in RawSqlIds
       THEN UNCHANGED <<version, estimated_hours>>
       ELSE /\ procs[p].ver < MaxVersion
            /\ version' = [version EXCEPT ![procs[p].task] = procs[p].ver + 1]
            /\ estimated_hours' =
                  [estimated_hours EXCEPT ![procs[p].task] = procs[p].hours]
    /\ resp' = Resp("update_task", procs[p].task, procs[p].expected, 200, {},
                    <<>>, FALSE)
    /\ UNCHANGED <<tasks, nextTaskId, deps, nextDepId>>

NextUpdate ==
    \/ \E p \in Procs, t \in SpecialIds, st \in TaskStatus, ver \in 0..MaxVersion :
          UpdateLoad(p, t, st, ver)
    \/ \E p \in Procs : UpdateCheck(p)
    \/ \E p \in Procs : UpdateSave(p)
    \/ \E t \in SpecialIds : ForceComplete(t)
    \/ \E t \in SpecialIds, st \in StatusInputs : ForceStatusUpdate(t, st)

\* The table of SpecialTasks with the default estimated hours.
InitSpecialDefault == SpecialStarted({DefaultHours})

SpecUpdate == InitSpecialDefault /\ [][NextUpdate]_vars

\* C20: of two concurrent updates of one task that both supply the version v
\* they read, at most one is applied: an update that supplied v is written
\* only while the stored version still is v.
C20_ConcurrentUpdatesConflict ==
    [][(resp'.op = "update_task" /\ resp'.http = 200 /\ resp'.arg # NoVersion)
          => version[resp'.task] = resp'.arg]_vars

\* ------------------------------------------------- critical path calculator
\* The dependencies of t in the order of their rows' ids
\* (self.dependencies.all(), models.py 59).
dependencies_in_order(rows, t) ==
    LET ids == SortedSeq({r.id : r \in {x \in rows : x.task = t}})
    IN [i \in 1..Len(ids) |-> (CHOOSE r \in rows : r.id = ids[i]).depends_on]

RECURSIVE calculate_path_time(_, _, _, _, _, _)
RECURSIVE calculate_path_loop(_, _, _, _, _, _)

\* A loop that takes the largest time but keeps the path of the first
\* dependency that contributed one.
calculate_path_loop_first_path(rows, st, hrs, ds, acc, depth) ==
    IF ds = <<>> \/ acc.over THEN acc
    ELSE IF st[Head(ds)] = COMPLETED
    THEN calculate_path_loop(rows, st, hrs, Tail(ds), acc, depth)
    ELSE LET c == calculate_path_time(rows, st, hrs, Head(ds), acc.visited, depth + 1)
             acc1 == IF c.time > acc.time
                     THEN [time |-> c.time,
                           path |-> IF acc.path = <<>> THEN c.path ELSE acc.path,
                           visited |-> c.visited, over |-> c.over]
                     ELSE [acc EXCEPT !.visited = c.visited, !.over = c.over]
         IN calculate_path_loop(rows, st, hrs, Tail(ds), acc1, depth)

\* The loop over the dependencies in calculate_path_time (models.py 110-118):
\* acc holds max_dep_time (time), critical_dep_path (path), the visited set of
\* the whole call and whether the depth limit was hit.
calculate_path_loop(rows, st, hrs, ds, acc, depth) ==
    IF ds = <<>> \/ acc.over THEN acc
    ELSE IF st[Head(ds)] = COMPLETED
    THEN calculate_path_loop(rows, st, hrs, Tail(ds), acc, depth)
    ELSE LET c == calculate_path_time(rows, st, hrs, Head(ds), acc.visited, depth + 1)
             acc1 == IF c.time > acc.time
                     THEN [time |-> c.time, path |-> c.path,
                           visited |-> c.visited, over |-> c.over]
                     ELSE [acc EXCEPT !.visited = c.visited, !.over = c.over]
         IN calculate_path_loop(rows, st, hrs, Tail(ds), acc1, depth)

\* A calculate_path_time without the visited test.
calculate_path_time_unguarded(rows, st, hrs, task_id, visited, depth) ==
    IF depth > DepthLimit
    THEN [time |-> 0, path |-> <<>>, visited |-> visited, over |-> TRUE]
    ELSE IF st[task_id] = COMPLETED
    THEN [time |-> 0, path |-> <<>>, visited |-> visited \cup {task_id}, over |-> FALSE]
    ELSE IF dependencies_in_order(rows, task_id) = <<>>
    THEN [time |-> hrs[task_id], path |-> <<task_id>>,
          visited |-> visited \cup {task_id}, over |-> FALSE]
    ELSE LET r == calculate_path_loop(rows, st, hrs,
                     dependencies_in_order(rows, task_id),
                     [time |-> 0, path |-> <<>>,
                      visited |-> visited \cup {task_id}, over |-> FALSE], depth)
         IN [time |-> r.time + hrs[task_id], path |-> Append(r.path, task_id),
             visited |-> r.visited, over |-> r.over]

\* A calculate_path_time that returns 0 hours for a task without dependencies.
calculate_path_time_leaf_zero(rows, st, hrs, task_id, visited, depth) ==
    IF depth > DepthLimit
    THEN [time |-> 0, path |-> <<>>, visited |-> visited, over |-> TRUE]
    ELSE IF task_id \in visited
    THEN [time |-> 0, path |-> <<>>, visited |-> visited, over |-> FALSE]
    ELSE IF st[task_id] = COMPLETED
    THEN [time |-> 0, path |-> <<>>, visited |-> visited \cup {task_id}, over |-> FALSE]
    ELSE IF dependencies_in_order(rows, task_id) = <<>>
    THEN [time |-> 0, path |-> <<task_id>>,
          visited |-> visited \cup {task_id}, over |-> FALSE]
    ELSE LET r == calculate_path_loop(rows, st, hrs,
                     dependencies_in_order(rows, task_id),
                     [time |-> 0, path |-> <<>>,
                      visited |-> visited \cup {task_id}, over |-> FALSE], depth)
         IN [time |-> r.time + hrs[task_id], path |-> Append(r.path, task_id),
             visited |-> r.visited, over |-> r.over]

\* A calculate_path_time that puts the task in front of the path of its
\* dependencies instead of behind it.
calculate_path_time_prepend(rows, st, hrs, task_id, visited, depth) ==
    IF depth > DepthLimit
    THEN [time |-> 0, path |-> <<>>, visited |-> visited, over |-> TRUE]
    ELSE IF task_id \in visited
    THEN [time |-> 0, path |-> <<>>, visited |-> visited, over |-> FALSE]
    ELSE IF st[task_id] = COMPLETED
    THEN [time |-> 0, path |-> <<>>, visited |-> visited \cup {task_id}, over |-> FALSE]
    ELSE IF dependencies_in_order(rows, task_id) = <<>>
    THEN [time |-> hrs[task_id], path |-> <<task_id>>,
          visited |-> visited \cup {task_id}, over |-> FALSE]
    ELSE LET r == calculate_path_loop(rows, st, hrs,
                     dependencies_in_order(rows, task_id),
                     [time |-> 0, path |-> <<>>,
                      visited |-> visited \cup {task_id}, over |-> FALSE], depth)
         IN [time |-> r.time + hrs[task_id], path |-> <<task_id>> \o r.path,
             visited |-> r.visited, over |-> r.over]

\* get_estimated_completion_time.calculate_path_time (models.py 87-124), at
\* nesting depth depth with the closure's visited set: (max_hours, path), the
\* visited set afterwards, and whether the interpreter's depth limit was hit.
calculate_path_time(rows, st, hrs, task_id, visited, depth) ==
    IF depth > DepthLimit
    THEN [time |-> 0, path |-> <<>>, visited |-> visited, over |-> TRUE]
    ELSE IF task_id \in visited
    THEN [time |-> 0, path |-> <<>>, visited |-> visited, over |-> FALSE]
    ELSE IF st[task_id] = COMPLETED
    THEN [time |-> 0, path |-> <<>>, visited |-> visited \cup {task_id}, over |-> FALSE]
    ELSE IF dependencies_in_order(rows, task_id) = <<>>
    THEN [time |-> hrs[task_id], path |-> <<task_id>>,
          visited |-> visited \cup {task_id}, over |-> FALSE]
    ELSE LET r == calculate_path_loop(rows, st, hrs,
                     dependencies_in_order(rows, task_id),
                     [time |-> 0, path |-> <<>>,
                      visited |-> visited \cup {task_id}, over |-> FALSE], depth)
         IN [time |-> r.time + hrs[task_id], path |-> Append(r.path, task_id),
             visited |-> r.visited, over |-> r.over]

\* An estimate without the early return for a completed task.
get_estimated_completion_time_no_shortcut(rows, st, hrs, t) ==
    LET c == calculate_path_time(rows, st, hrs, t, {}, 1)
    IN [total_hours |-> c.time, critical_path |-> c.path,
        can_start_immediately |-> can_start(rows, st, t), over |-> c.over]

\* Task.get_estimated_completion_time (models.py 72-132)
get_estimated_completion_time(rows, st, hrs, t) ==
    IF st[t] = COMPLETED
    THEN [total_hours |-> 0, critical_path |-> <<t>>,
          can_start_immediately |-> TRUE, over |-> FALSE]
    ELSE LET c == calculate_path_time(rows, st, hrs, t, {}, 1)
         IN [total_hours |-> c.time, critical_path |-> c.path,
             can_start_immediately |-> can_start(rows, st, t), over |-> c.over]

\* Number of tasks of the tables the calculator runs on in SpecEstimate.
EstimateNodes == 3
EstimateIds == 1..EstimateNodes
\* The estimated hours the tasks of SpecEstimate are given: the default and a
\* smaller value.
EstimateHours == {3, DefaultHours}
EstimatePairs == {e \in EstimateIds \X EstimateIds : e[1] # e[2]}

\* Every table over EstimateNodes tasks without a row (X, X), the cyclic
\* tables that concurrent insertions can leave included; each task with any
\* status and any of the hours.
InitEstimate ==
    /\ tasks = EstimateIds
    /\ status \in [EstimateIds -> TaskStatus]
    /\ version = [t \in EstimateIds |-> 1]
    /\ nextTaskId = EstimateNodes + 1
    /\ \E E \in SUBSET EstimatePairs : deps = RowsOf(E)
    /\ nextDepId = DetectNodes * DetectNodes + 1
    /\ procs = [p \in Procs |-> IdleProc]
    /\ resp = NoResp
    /\ estimated_hours \in [EstimateIds -> EstimateHours]

\* An estimate that re-resolves the task's status while it is at it.
EstimateResolving(t) ==
    /\ resp = NoResp
    /\ t \in tasks
    /\ LET r == get_estimated_completion_time(deps, status, estimated_hours, t)
       IN resp' = [Resp("estimate", t, 0, 0,
                        IF r.over THEN {"recursion_limit"} ELSE {},
                        r.critical_path, FALSE)
                     EXCEPT !.total_hours = r.total_hours,
                            !.can_start = r.can_start_immediately]
    /\ status' = update_status_based_on_dependencies(deps, status, t)
    /\ UNCHANGED <<tasks, version, nextTaskId, deps, nextDepId, procs,
                   estimated_hours>>

\* task.get_estimated_completion_time() (models.py 72-132; called by
\* TaskSerializer.get_estimated_completion, serializers.py 96-98). The
\* calculator writes nothing, so one call per drawn table covers every call.
Estimate(t) ==
    /\ resp = NoResp
    /\ t \in tasks
    /\ LET r == get_estimated_completion_time(deps, status, estimated_hours, t)
       IN resp' = [Resp("estimate", t, 0, 0,
                        IF r.over THEN {"recursion_limit"} ELSE {},
                        r.critical_path, FALSE)
                     EXCEPT !.total_hours = r.total_hours,
                            !.can_start = r.can_start_immediately]
    /\ UNCHANGED <<tasks, status, version, nextTaskId, deps, nextDepId, procs,
                   estimated_hours>>

\* task.can_start() (models.py 65-70; called by TaskSerializer.get_can_start,
\* serializers.py 88-90).
CanStart(t) ==
    /\ resp = NoResp
    /\ t \in tasks
    /\ resp' = [Resp("can_start", t, 0, 0, {}, <<>>, FALSE)
                  EXCEPT !.can_start = can_start(deps, status, t)]
    /\ UNCHANGED <<tasks, status, version, nextTaskId, deps, nextDepId, procs,
                   estimated_hours>>

NextEstimate ==
    \/ \E t \in EstimateIds : Estimate(t)
    \/ \E t \in EstimateIds : CanStart(t)

SpecEstimate == InitEstimate /\ [][NextEstimate]_vars

\* The diamond of tasks A = 1, B = 2, C = 3, D = 4: B and C depend on A, D
\* depends on B and C; B, C, D have 3, 5 and 2 estimated hours, A has none or
\* the default; no task is completed; the four rows were inserted in any order.
DiamondPairs == <<(<<2, 1>>), (<<3, 1>>), (<<4, 2>>), (<<4, 3>>)>>
DiamondHoursA == {0, DefaultHours}

InitDiamond ==
    /\ tasks = 1..4
    /\ status \in [1..4 -> TaskStatus \ {COMPLETED}]
    /\ version = [t \in 1..4 |-> 1]
    /\ nextTaskId = 5
    /\ \E p \in Permutations(1..4) :
          deps = {[id |-> p[i], task |-> DiamondPairs[i][1],
                   depends_on |-> DiamondPairs[i][2]] : i \in 1..4}
    /\ nextDepId = 5
    /\ procs = [p \in Procs |-> IdleProc]
    /\ resp = NoResp
    /\ \E a \in DiamondHoursA : estimated_hours = <<a, 3, 5, 2>>

NextDiamond == \E t \in 1..4 : Estimate(t)

SpecDiamond == InitDiamond /\ [][NextDiamond]_vars

\* Sum of the estimated hours of the tasks of a path.
RECURSIVE SumHours(_)
SumHours(q) == IF q = <<>> THEN 0 ELSE estimated_hours[Head(q)] + SumHours(Tail(q))

\* The largest sum of estimated hours over the chains of non-completed tasks
\* of pair set E that end at the non-completed task n (E acyclic).
RECURSIVE LongestEffort(_, _)
LongestEffort(E, n) ==
    LET pre == {m \in {e[2] : e \in {x \in E : x[1] = n}} : status[m] # COMPLETED}
        sums == {LongestEffort(E, m) : m \in pre}
    IN IF pre = {} THEN estimated_hours[n]
       ELSE estimated_hours[n] + (CHOOSE k \in sums : \A j \in sums : j <= k)

\* q is a chain of non-completed tasks that ends at n: each task of q is a
\* direct dependency of the next one.
IsEffortChain(q, n) ==
    /\ q # <<>> /\ q[Len(q)] = n
    /\ \A i \in 1..Len(q) : status[q[i]] # COMPLETED
    /\ \A i \in 1..(Len(q) - 1) : <<q[i + 1], q[i]>> \in Pairs(deps)

NoRepeats(q) == \A i \in 1..Len(q), j \in 1..Len(q) : q[i] = q[j] => i = j

\* C21: for a non-completed task T of an acyclic table, the estimate's
\* total_hours is the largest sum of estimated hours over the chains of
\* non-completed tasks ending at T, and critical_path is such a chain with
\* that sum.
C21_TotalIsLongestChain ==
    (/\ resp.op = "estimate"
     /\ status[resp.task] # COMPLETED
     /\ Acyclic(Pairs(deps)))
        => (/\ resp.total_hours = LongestEffort(Pairs(deps), resp.task)
            /\ IsEffortChain(resp.path, resp.task)
            /\ SumHours(resp.path) = resp.total_hours)

\* C22: on the diamond with hours 3, 5, 2 for B, C, D and no task completed,
\* the estimate for D is total_hours 7 with critical_path A, C, D.
C22_DiamondTakesLongerBranch ==
    (resp.op = "estimate" /\ resp.task = 4) =>
        (resp.total_hours = 7 /\ resp.path = <<1, 3, 4>>)

\* C23: for a non-completed task T without dependencies the estimate is
\* total_hours = T's estimated hours and critical_path = [T].
C23_NoDependenciesOwnHours ==
    (/\ resp.op = "estimate"
     /\ status[resp.task] # COMPLETED
     /\ \A r \in deps : r.task # resp.task)
        => (/\ resp.total_hours = estimated_hours[resp.task]
            /\ resp.path = <<resp.task>>)

\* C23 witness: a pending task with 8 hours and no dependency, which other
\* tasks depend on, was estimated at 8 hours.
C23_Witness ==
    /\ resp.op = "estimate" /\ status[resp.task] = PENDING
    /\ (\A r \in deps : r.task # resp.task) /\ (\E r \in deps : r.depends_on = resp.task)
    /\ estimated_hours[resp.task] = 8 /\ resp.total_hours = 8

\* C24: for a completed task T the estimate is total_hours 0,
\* critical_path [T] and can_start_immediately true, whatever its
\* dependencies are.
C24_CompletedEstimateIsZero ==
    (resp.op = "estimate" /\ status[resp.task] = COMPLETED) =>
        (/\ resp.total_hours = 0
         /\ resp.path = <<resp.task>>
         /\ resp.can_start = TRUE)

\* C24 witness: a completed task with a pending and a blocked dependency was
\* estimated.
C24_Witness ==
    /\ resp.op = "estimate" /\ status[resp.task] = COMPLETED
    /\ {PENDING, BLOCKED} \subseteq DepStatuses(resp.task)

\* C25: an estimate leaves every stored status, version and estimated hours
\* and all rows of task_dependencies unchanged.
C25_EstimateReadOnly ==
    [][resp'.op = "estimate" =>
          (/\ status' = status /\ version' = version
           /\ estimated_hours' = estimated_hours
           /\ deps' = deps /\ tasks' = tasks)]_vars

\* C25 witness: an estimate that went through a dependency of an in_progress
\* task whose dependencies are not all completed.
C25_Witness ==
    /\ resp.op = "estimate" /\ status[resp.task] = IN_PROGRESS
    /\ Len(resp.path) >= 2
    /\ PENDING \in DepStatuses(resp.task)

\* C26: on every table, a cyclic one included, the estimate returns a result
\* and no error; no task occurs twice on the path and the hours are those of
\* the tasks on the path, so a task met again adds nothing.
C26_EstimateTerminatesOnCycles ==
    resp.op = "estimate" =>
        (/\ resp.errors = {}
         /\ NoRepeats(resp.path)
         /\ resp.path # <<>> /\ resp.path[Len(resp.path)] = resp.task
         /\ status[resp.task] # COMPLETED => SumHours(resp.path) = resp.total_hours)

\* C26 witness: an estimate for a non-completed task that lies on a cycle of
\* non-completed tasks through all three tasks.
C26_Witness ==
    /\ resp.op = "estimate"
    /\ \A t \in tasks : status[t] # COMPLETED /\ t \in Reach(Pairs(deps), t)
    /\ Len(resp.path) = 3

\* C27: can_start is true exactly when the task has no dependency or all its
\* dependencies are completed, and for a non-completed task the estimate's
\* can_start_immediately is that same value.
C27_CanStartIffAllCompleted ==
    /\ resp.op = "can_start" =>
          (resp.can_start <=> DepStatuses(resp.task) \subseteq {COMPLETED})
    /\ (resp.op = "estimate" /\ status[resp.task] # COMPLETED) =>
          (resp.can_start <=> DepStatuses(resp.task) \subseteq {COMPLETED})

\* C27 witness: an estimate for a pending task with two dependencies, both
\* completed: it can start and has hours left.
C27_Witness ==
    /\ resp.op = "estimate" /\ status[resp.task] = PENDING
    /\ Cardinality({r \in deps : r.task = resp.task}) = 2
    /\ DepStatuses(resp.task) = {COMPLETED}
    /\ resp.can_start /\ resp.total_hours > 0

\* ------------------------------------------------- removal, deletion, creation
\* The resolver's rules stated over a current status cur and the set ds of the
\* statuses of the direct dependencies.
ResolverResult(cur, ds) ==
    IF cur = COMPLETED THEN COMPLETED
    ELSE IF BLOCKED \in ds THEN BLOCKED
    ELSE IF ds \subseteq {COMPLETED}
         THEN (IF cur \in {PENDING, BLOCKED} THEN IN_PROGRESS ELSE cur)
    ELSE IF cur = IN_PROGRESS THEN PENDING
    ELSE cur

\* C28: a remove_dependency that finds its row deletes that row of the task
\* and no other, and leaves the task with the status the resolver yields over
\* the remaining dependencies; every other task keeps its status.
C28_RemoveDeletesAndResolves ==
    [][(resp'.op = "remove_dependency" /\ resp'.http = 204) =>
          \E r \in deps :
             /\ r.task = resp'.task
             /\ (r.id = resp'.arg \/ r.depends_on = resp'.arg)
             /\ deps' = deps \ {r}
             /\ status'[r.task] =
                   ResolverResult(status[r.task],
                      {status[x.depends_on] : x \in {y \in deps' : y.task = r.task}})
             /\ \A x \in tasks \ {r.task} : status'[x] = status[x]]_vars

\* C28 witness: after a removal the task has no dependency left and is
\* in_progress, while another task still has one.
C28_Witness ==
    /\ resp.op = "remove_dependency" /\ resp.http = 204
    /\ status[resp.task] = IN_PROGRESS
    /\ (\A r \in deps : r.task # resp.task) /\ deps # {}

\* C29: both ends of every stored row are existing tasks, and right after a
\* task was deleted no stored row names it.
C29_DeleteCascades ==
    /\ \A r \in deps : r.task \in tasks /\ r.depends_on \in tasks
    /\ (resp.op = "delete_task" /\ resp.http = 204) =>
          (resp.task \notin tasks
           /\ \A r \in deps : r.task # resp.task /\ r.depends_on # resp.task)

\* C29 witness: a task was deleted after three rows had been inserted, and
\* one row is left.
C29_Witness ==
    /\ resp.op = "delete_task" /\ resp.http = 204
    /\ nextDepId = 4 /\ Cardinality(deps) = 1

\* C30: a task created without a status is stored with status pending and
\* version 1, although it has no dependency; no other task changes.
C30_CreatedPendingVersionOne ==
    [][(resp'.op = "create_task" /\ resp'.arg = 0) =>
          (/\ resp'.task \notin tasks /\ resp'.task \in tasks'
           /\ status'[resp'.task] = PENDING
           /\ version'[resp'.task] = 1
           /\ \A r \in deps' : r.task # resp'.task
           /\ \A x \in tasks : status'[x] = status[x] /\ version'[x] = version[x])]_vars

\* C30 witness: the third task was just created without a status, is pending
\* at version 1, and rows of the other tasks are stored.
C30_Witness ==
    /\ resp.op = "create_task" /\ resp.arg = 0 /\ resp.task = 3
    /\ status[3] = PENDING /\ version[3] = 1 /\ deps # {}

\* C31: under any interleaving of concurrent mutations of a task, every
\* successful mutation leaves the task's stored version one above the version
\* stored before it, and no step lowers a stored version.
C31_ConcurrentVersionsStrictlyGrow ==
    [][\A x \in tasks :
          /\ version'[x] >= version[x]
          /\ (resp'.op \in MutationOps /\ resp'.task = x /\ resp'.http = 200)
                => version'[x] = version[x] + 1]_vars

\* C32: after a successful insertion of the edge (X, Y) the row is stored, the
\* stored status of X is the resolver's result for X's prior status and the
\* statuses of X's direct dependencies, Y included, and no other task's status
\* changes.
C32_InsertResolvesDependent ==
    [][(resp'.op = "create_dependency" /\ resp'.row # 0) =>
          LET X == resp'.task
              Y == resp'.arg
          IN /\ deps' = deps \cup {[id |-> resp'.row, task |-> X, depends_on |-> Y]}
             /\ status'[X] =
                   ResolverResult(status[X],
                      {status[r.depends_on] : r \in {x \in deps : x.task = X}}
                         \cup {status[Y]})
             /\ \A x \in tasks \ {X} : status'[x] = status[x]]_vars

\* C32 witness: an insertion stored a second edge of a task, towards a blocked
\* task, and the dependent is blocked although its other dependency is
\* completed.
C32_Witness ==
    /\ resp.op = "create_dependency" /\ resp.row # 0
    /\ status[resp.task] = BLOCKED
    /\ status[resp.arg] = BLOCKED
    /\ \E r \in deps : r.task = resp.task /\ r.id # resp.row
                       /\ status[r.depends_on] = COMPLETED

\* C33: a resolver call whose result equals the task's current status returns
\* "no change" and leaves every stored status and version as it was; a call
\* that returns "changed" has written a status different from the one stored
\* before, namely the resolver's result. The edges are never touched.
C33_ResolverWritesOnlyOnChange ==
    [][resp'.op = "resolve" =>
          LET t == resp'.task
              res == ResolverResult(status[t], DepStatuses(t))
          IN /\ (res = status[t] =>
                    ~resp'.changed /\ status' = status /\ version' = version)
             /\ (resp'.changed =>
                    status'[t] # status[t] /\ status'[t] = res)
             /\ deps' = deps]_vars

\* C33 witness: the resolver ran on a task that is not completed and has
\* dependencies, its result was the status the task already had, and it
\* returned "no change".
C33_Witness ==
    /\ resp.op = "resolve" /\ ~resp.changed
    /\ status[resp.task] # COMPLETED
    /\ DepStatuses(resp.task) # {}
    /\ ResolverResult(status[resp.task], DepStatuses(resp.task)) = status[resp.task]

\* C34 as stated: every task id occurs in a returned cycle path exactly once.
C34_CyclePathHoldsEachTaskOnce ==
    (resp.op = "detect" /\ resp.path # <<>>) => NoRepeats(resp.path)

\* C34 amended: a returned cycle path is a stretch of the traversal path, in
\* which no task occurs twice, followed by the task met again: the path ends
\* with the task it starts with, that task occurs exactly twice, every other
\* task once, and the task before the last one is the task from which the
\* first was met again (an edge of the stored set or the candidate).
C34_CyclePathClosesOnFirstTask ==
    (resp.op = "detect" /\ resp.path # <<>>) =>
        LET n == Len(resp.path)
            front == SubSeq(resp.path, 1, n - 1)
        IN /\ n >= 2
           /\ resp.path[n] = resp.path[1]
           /\ NoRepeats(front)
           /\ <<resp.path[n - 1], resp.path[n]>> \in
                 Pairs(deps) \cup {<<resp.task, resp.arg>>}

\* C34 witness: the detector returned a cycle that runs through every task of
\* the table.
C34_Witness ==
    /\ resp.op = "detect"
    /\ Len(resp.path) = DetectNodes + 1
    /\ Range(resp.path) = tasks

\* C35: a path returned for the candidate (s, t) over an acyclic stored set is
\* a cycle of the stored edges plus the candidate: every consecutive pair
\* (u, v) is an edge "u depends on v", the path starts at s, its second task
\* is t or an existing dependency of s, it returns to its first task, and it
\* runs over the candidate edge.
C35_CyclePathIsCycleOfEdges ==
    (resp.op = "detect" /\ resp.path # <<>>) =>
        LET q == resp.path
            E == Pairs(deps) \cup {<<resp.task, resp.arg>>}
        IN /\ Len(q) >= 3
           /\ \A i \in 1..(Len(q) - 1) : <<q[i], q[i + 1]>> \in E
           /\ q[1] = resp.task
           /\ q[2] \in {resp.arg} \cup get_dependencies(deps, resp.task)
           /\ q[Len(q)] = q[1]
           /\ \E i \in 1..(Len(q) - 1) : <<q[i], q[i + 1]>> = <<resp.task, resp.arg>>

\* C35 witness: a cycle of three edges was returned after the detector had
\* first walked into a stored dependency of s with a smaller id than t and
\* come back from it.
C35_Witness ==
    /\ resp.op = "detect"
    /\ Len(resp.path) = 4
    /\ resp.path[2] = resp.arg
    /\ \E a \in get_dependencies(deps, resp.task) : a < resp.arg

\* C36: for a task that is not completed, the total hours of the estimate are
\* the sum of the estimated hours of the tasks of its critical path.
C36_TotalIsSumOfCriticalPath ==
    (resp.op = "estimate" /\ status[resp.task] # COMPLETED) =>
        resp.total_hours = SumHours(resp.path)

\* C36 witness: an estimate of 11 hours for a task of 3 hours with two
\* dependencies, none completed, whose critical path holds the dependency of
\* 8 hours and the task.
C36_Witness ==
    /\ resp.op = "estimate"
    /\ \A t \in tasks : status[t] # COMPLETED
    /\ Cardinality(get_dependencies(deps, resp.task)) = 2
    /\ estimated_hours[resp.task] = 3
    /\ resp.total_hours = 11
    /\ Len(resp.path) = 2

\* C37: for a task T that is not completed, in an acyclic graph, the critical
\* path ends with T, holds no completed task and no task twice, and each of
\* its tasks depends directly on the task listed immediately before it.
C37_CriticalPathIsDependencyChain ==
    (/\ resp.op = "estimate"
     /\ status[resp.task] # COMPLETED
     /\ Acyclic(Pairs(deps)))
        => (/\ resp.path # <<>>
            /\ resp.path[Len(resp.path)] = resp.task
            /\ \A i \in 1..Len(resp.path) : status[resp.path[i]] # COMPLETED
            /\ NoRepeats(resp.path)
            /\ \A i \in 2..Len(resp.path) :
                  resp.path[i - 1] \in get_dependencies(deps, resp.path[i]))

\* C37 witness: an estimate in an acyclic graph whose critical path runs over
\* three tasks, where the task also depends directly on the first of them.
C37_Witness ==
    /\ resp.op = "estimate"
    /\ Acyclic(Pairs(deps))
    /\ Len(resp.path) = 3
    /\ resp.path[1] \in get_dependencies(deps, resp.task)

\* C38: a propagation run from X changes the stored status only of tasks that
\* depend on X, directly or transitively, and of none that is completed; X
\* itself, the tasks X depends on, unrelated tasks, the versions and the edges
\* stay as they were.
C38_PropagationTouchesOnlyDependents ==
    [][resp'.op = "propagate" =>
          LET X == resp'.task
          IN /\ \A y \in tasks :
                   status'[y] # status[y] =>
                      /\ y # X
                      /\ X \in Reach(Pairs(deps), y)
                      /\ y \notin Reach(Pairs(deps), X)
                      /\ status[y] # COMPLETED
             /\ deps' = deps /\ tasks' = tasks /\ version' = version]_vars

\* C38 witness: a propagation from a task X changed a dependent and descended
\* into it, while X itself is in progress on top of a dependency that is not
\* completed, a status the resolver would not leave it in.
C38_Witness ==
    /\ resp.op = "propagate" /\ resp.arg >= 2
    /\ status[resp.task] = IN_PROGRESS
    /\ \E d \in get_dependencies(deps, resp.task) : status[d] = PENDING

\* C39: after a task is deleted, every task that depended on it directly has
\* as stored status the resolver's result for its prior status and the
\* statuses of the dependencies it has left, the deleted task not counted.
C39_DeleteResolvesDependents ==
    [][(resp'.op = "delete_task" /\ resp'.http = 204) =>
          \A y \in get_dependents(deps, resp'.task) \ {resp'.task} :
             status'[y] =
                ResolverResult(status[y],
                   {status'[r.depends_on] : r \in {x \in deps' : x.task = y}})]_vars

====
